---- MODULE Spec2Model ----
(***************************************************************************)
(* A model of lssh: the Host/Group tree and its flattening, the TTL cache  *)
(* wrapped around a provider, and the interactive controller with its      *)
(* concurrent bulk command execution.                                      *)
(*                                                                         *)
(* Strings whose content matters (names, hostnames, file paths, typed      *)
(* text) are sequences of one-character strings, so that formatting them   *)
(* into keys is real concatenation.                                        *)
(***************************************************************************)
EXTENDS Integers, Sequences, FiniteSets, TLC

VARIABLES
  tree, result, prevResult, calls,        \* the AllHosts harness
  now, disk, phase, cps, ret, stored,     \* the cache layer
  m, pending, loads, logs, runs           \* the interactive session

groupVars == <<tree, result, prevResult, calls>>
cacheVars == <<now, disk, phase, cps, ret, stored>>
tuiVars == <<m, pending, loads, logs, runs>>
vars == <<groupVars, cacheVars, tuiVars>>

(***************************************************************************)
(* Bounds of the model.                                                    *)
(***************************************************************************)
MaxNodes == 4
MaxGroupHosts == 2
MaxCalls == 2
MaxTime == 2
TTL == 1
MaxText == 1
MaxRuns == 1
MaxLoads == 1
MaxSelected == 2
MaxItems == 7
MaxCols == 4
MaxProviders == 2

(***************************************************************************)
(* Hosts and groups (pkg/types).  Port and User are left at their zero     *)
(* values: nothing modelled here reads them.                               *)
(***************************************************************************)
Host(name, hostname) == [name |-> name, hostname |-> hostname]

Group(name, hosts, subgroups) == [name |-> name, hosts |-> hosts, subgroups |-> subgroups]

HostA == Host(<<"a", "@", "b">>, <<"c">>)

HostB == Host(<<"a">>, <<"b", "@", "c">>)

HostC == Host(<<"W">>, <<"w", "x">>)

RECURSIVE AllHosts(_)

\* A slip that appends the group's own hosts after those of its subgroups.
AllHostsOwnLast(g) ==
  LET RECURSIVE Loop(_, _)
      Loop(i, acc) == IF i > Len(g.subgroups) THEN acc
                      ELSE Loop(i + 1, acc \o AllHosts(g.subgroups[i]))
  IN Loop(1, <<>>) \o g.hosts

AllHosts(g) ==
  LET RECURSIVE Loop(_, _)
      Loop(i, acc) == IF i > Len(g.subgroups) THEN acc
                      ELSE Loop(i + 1, acc \o AllHosts(g.subgroups[i]))
  IN Loop(1, g.hosts)

(***************************************************************************)
(* The group trees the harness draws from: every ordered tree of at most   *)
(* MaxNodes groups, each group holding the first n hosts of TreeHosts for   *)
(* some n up to MaxGroupHosts.                                             *)
(***************************************************************************)
TreeHosts == <<HostA, HostC, HostB, HostC>>

HostSeqs == {SubSeq(TreeHosts, 1, n) : n \in 0..MaxGroupHosts}

RECURSIVE TreesOfSize(_)
RECURSIVE ForestsOfSize(_)

TreesOfSize(n) ==
  IF n < 1 THEN {}
  ELSE {Group(<<"g">>, hs, ss) : hs \in HostSeqs, ss \in ForestsOfSize(n - 1)}

ForestsOfSize(n) ==
  IF n = 0 THEN {<<>>}
  ELSE UNION {{<<t>> \o f : t \in TreesOfSize(j), f \in ForestsOfSize(n - j)} : j \in 1..n}

Trees == UNION {TreesOfSize(n) : n \in 1..MaxNodes}

(***************************************************************************)
(* The AllHosts harness: a tree is drawn, AllHosts is called on it         *)
(* repeatedly, the last two results are kept.                              *)
(***************************************************************************)
NoResult == <<"none">>

CallAllHosts ==
  /\ calls < MaxCalls
  /\ result' = AllHosts(tree)
  /\ prevResult' = result
  /\ calls' = calls + 1
  /\ UNCHANGED tree

(***************************************************************************)
(* Provider results.  A forest is a sequence of root groups; the source of *)
(* a provider answers a fetch with a forest or with an error.              *)
(***************************************************************************)
ForestEmpty == <<Group(<<"e">>, <<>>, <<>>)>>

ForestNested == <<Group(<<"p">>, <<>>, <<Group(<<"q">>, <<HostA>>, <<>>)>>)>>

ForestFlat == <<Group(<<"r">>, <<HostB, HostC>>, <<>>), Group(<<"e">>, <<>>, <<>>)>>

Forests == {ForestEmpty, ForestNested, ForestFlat}

NoError == "nil"

FetchError == "fetch failed"

SourceOutcomes ==
  {[groups |-> f, err |-> NoError] : f \in Forests} \cup {[groups |-> <<>>, err |-> FetchError]}

(***************************************************************************)
(* The configured providers (internal/provider Config): type, name and the *)
(* "file" parameter.  File paths and names are free text.                  *)
(***************************************************************************)
ProviderConfig(type, name, file) == [type |-> type, name |-> name, file |-> file]

ProviderConfigs ==
  << ProviderConfig(<<"json">>, <<"c">>, <<"a", ":", "b">>),
     ProviderConfig(<<"json">>, <<"b", ":", "c">>, <<"a">>),
     ProviderConfig(<<"ansible">>, <<"c">>, <<"a">>) >>

ProvIds == DOMAIN ProviderConfigs

\* NewCachedProvider: the wrapper built by the factory for one configuration.
NewCachedProvider(cfg) ==
  [name |-> cfg.name, providerType |-> cfg.type, filePath |-> cfg.file,
   useExpiredCache |-> FALSE]

\* fmt.Sprintf("%s:%s:%s", providerType, filePath, Name())
KeyData(cp) ==
  cp.providerType \o <<":">> \o cp.filePath \o <<":">> \o cp.name

\* The first eight bytes of the SHA-256 of the key text, in hex after "lssh_".
\* The digest is modelled as collision free: two keys are equal exactly when
\* the hashed texts are.
getCacheKey(cp) ==
  <<"lssh_">> \o KeyData(cp)

(***************************************************************************)
(* The cache directory.  disk.exists: the directory exists; disk.files:    *)
(* the content of each file name in it.  A file name is a base and an      *)
(* extension; a cache entry is <key>.json.                                 *)
(***************************************************************************)
FileName(base, ext) == [base |-> base, ext |-> ext]

CacheFile(key) == FileName(key, ".json")

ForeignFile == FileName(<<"notes">>, ".txt")

CacheFiles == {CacheFile(getCacheKey(NewCachedProvider(ProviderConfigs[p]))) : p \in ProvIds}

FileNames == CacheFiles \cup {ForeignFile}

Absent == [kind |-> "absent"]

Corrupt == [kind |-> "corrupt"]

Unreadable == [kind |-> "unreadable"]

Other == [kind |-> "other"]

JsonFile(doc) == [kind |-> "json", doc |-> doc]

(***************************************************************************)
(* encoding/json on cacheEntry: Hosts is always written, SubGroups is      *)
(* omitempty, Port and User (zero) are omitted.                            *)
(***************************************************************************)
RECURSIVE MarshalGroups(_)

MarshalGroup(g) ==
  IF g.subgroups = <<>>
  THEN [name |-> g.name, hosts |-> g.hosts]
  ELSE [name |-> g.name, hosts |-> g.hosts, subgroups |-> MarshalGroups(g.subgroups)]

MarshalGroups(gs) ==
  [i \in DOMAIN gs |-> MarshalGroup(gs[i])]

RECURSIVE UnmarshalGroups(_)

UnmarshalGroup(d) ==
  Group(d.name, d.hosts,
        IF "subgroups" \in DOMAIN d THEN UnmarshalGroups(d.subgroups) ELSE <<>>)

UnmarshalGroups(ds) ==
  [i \in DOMAIN ds |-> UnmarshalGroup(ds[i])]

MarshalEntry(groups, timestamp) ==
  [groups |-> MarshalGroups(groups), timestamp |-> timestamp]

\* A slip that ignores the error of json.Unmarshal: a corrupt file then
\* yields the zero entry.
loadFromCacheIgnoringParseError(fs, cacheFile) ==
  LET data == fs.files[cacheFile]
  IN IF data.kind \in {"absent", "unreadable"}
     THEN [ok |-> FALSE, Groups |-> <<>>, Timestamp |-> 0]
     ELSE IF data.kind # "json"
     THEN [ok |-> TRUE, Groups |-> <<>>, Timestamp |-> 0]
     ELSE [ok |-> TRUE, Groups |-> UnmarshalGroups(data.doc.groups),
           Timestamp |-> data.doc.timestamp]

\* loadFromCache: os.ReadFile fails on a missing or unreadable file,
\* json.Unmarshal fails on a corrupt one.
loadFromCache(fs, cacheFile) ==
  LET data == fs.files[cacheFile]
  IN IF data.kind \in {"absent", "unreadable"}
     THEN [ok |-> FALSE, Groups |-> <<>>, Timestamp |-> 0]
     ELSE IF data.kind # "json"
     THEN [ok |-> FALSE, Groups |-> <<>>, Timestamp |-> 0]
     ELSE [ok |-> TRUE, Groups |-> UnmarshalGroups(data.doc.groups),
           Timestamp |-> data.doc.timestamp]

\* saveToCache: best effort; saveOk says that MkdirAll and WriteFile work.
\* When they do not, nothing is written and nothing is reported.
saveToCache(fs, cacheFile, groups, t, saveOk) ==
  IF ~saveOk THEN fs
  ELSE [exists |-> TRUE,
        files |-> [fs.files EXCEPT ![cacheFile] = JsonFile(MarshalEntry(groups, t))]]

RECURSIVE SumLen(_, _)
SumLen(gs, i) ==
  IF i > Len(gs) THEN 0 ELSE Len(AllHosts(gs[i])) + SumLen(gs, i + 1)

RECURSIVE SumDirect(_, _)
SumDirect(gs, i) ==
  IF i > Len(gs) THEN 0 ELSE Len(gs[i].hosts) + SumDirect(gs, i + 1)

\* A slip that counts only the direct hosts of the root groups.
TotalHostsDirectOnly(groups) ==
  SumDirect(groups, 1)

\* totalHosts of GetGroups: the hosts of the forest, counted with AllHosts.
TotalHosts(groups) ==
  SumLen(groups, 1)

\* A slip that falls back to any loadable entry when the source fails.
CachedGetGroupsStaleOnError(cp, fs, t, out, saveOk) ==
  LET cacheFile == CacheFile(getCacheKey(cp))
      entry == loadFromCache(fs, cacheFile)
  IN IF entry.ok /\ (t - entry.Timestamp < TTL \/ cp.useExpiredCache)
     THEN [groups |-> entry.Groups, err |-> NoError, invoked |-> FALSE, saving |-> FALSE,
           fs |-> fs]
     ELSE IF out.err # NoError
     THEN IF entry.ok
          THEN [groups |-> entry.Groups, err |-> NoError, invoked |-> TRUE, saving |-> FALSE,
                fs |-> fs]
          ELSE [groups |-> <<>>, err |-> out.err, invoked |-> TRUE, saving |-> FALSE, fs |-> fs]
     ELSE [groups |-> out.groups, err |-> NoError, invoked |-> TRUE,
           saving |-> TotalHosts(out.groups) > 0,
           fs |-> IF TotalHosts(out.groups) > 0
                  THEN saveToCache(fs, cacheFile, out.groups, t, saveOk)
                  ELSE fs]

\* CachedProvider.GetGroups as a function of the instance, the directory, the
\* clock, what the source answers if it is asked, and whether saving works.
CachedGetGroups(cp, fs, t, out, saveOk) ==
  LET cacheFile == CacheFile(getCacheKey(cp))
      entry == loadFromCache(fs, cacheFile)
  IN IF entry.ok /\ (t - entry.Timestamp < TTL \/ cp.useExpiredCache)
     THEN [groups |-> entry.Groups, err |-> NoError, invoked |-> FALSE, saving |-> FALSE,
           fs |-> fs]
     ELSE IF out.err # NoError
     THEN [groups |-> <<>>, err |-> out.err, invoked |-> TRUE, saving |-> FALSE, fs |-> fs]
     ELSE [groups |-> out.groups, err |-> NoError, invoked |-> TRUE,
           saving |-> TotalHosts(out.groups) > 0,
           fs |-> IF TotalHosts(out.groups) > 0
                  THEN saveToCache(fs, cacheFile, out.groups, t, saveOk)
                  ELSE fs]


(***************************************************************************)
(* The cache layer as a state machine.  One process runs at a time: either *)
(* a clear-cache run (main with the clear-cache flag), or a session, in    *)
(* which the providers are built, stale caches may be resolved once, and   *)
(* fetches are made.  The directory outlives the processes; time passes.   *)
(***************************************************************************)
NoForest == <<>>

CacheFileOf(cp) == CacheFile(getCacheKey(cp))

\* The cache file of the provider built from configuration p.
StoredFile(p) == CacheFileOf(NewCachedProvider(ProviderConfigs[p]))

EmptyDir == [f \in FileNames |-> Absent]

InitialDisks ==
  { [exists |-> FALSE, files |-> EmptyDir],
    [exists |-> TRUE, files |-> EmptyDir],
    [exists |-> TRUE, files |-> [EmptyDir EXCEPT ![ForeignFile] = Other]],
    [exists |-> TRUE,
     files |-> [f \in FileNames |->
                  IF f = ForeignFile THEN Other
                  ELSE IF f = CacheFileOf(NewCachedProvider(ProviderConfigs[1]))
                  THEN Corrupt ELSE Unreadable]] }

\* run(): NewProvider for every configured provider, caching enabled.
StartSession ==
  /\ phase = "idle"
  /\ phase' = "start"
  /\ cps' = [p \in ProvIds |-> NewCachedProvider(ProviderConfigs[p])]
  /\ ret' = [op |-> "none"]
  /\ UNCHANGED <<now, disk, stored>>

EndSession ==
  /\ phase # "idle"
  /\ phase' = "idle"
  /\ cps' = <<>>
  /\ ret' = [op |-> "none"]
  /\ UNCHANGED <<now, disk, stored>>

Tick ==
  /\ now < MaxTime
  /\ now' = now + 1
  /\ UNCHANGED <<disk, phase, cps, ret, stored>>

NotAsked == [groups |-> <<>>, err |-> "not asked"]

\* One cached fetch of provider p: out is what the source answers if asked.
\* ret keeps what the caller gets, and of the inputs those that were used:
\* the answer of the source if it was invoked, the fate of the save if one
\* was attempted.
GetGroups(p, out, saveOk) ==
  /\ phase \in {"start", "run"}
  /\ \E r \in {CachedGetGroups(cps[p], disk, now, out, saveOk)} :
     LET f == CacheFileOf(cps[p])
     IN /\ disk' = r.fs
        /\ ret' = [op |-> "GetGroups", p |-> p, groups |-> r.groups, err |-> r.err,
                   invoked |-> r.invoked,
                   asked |-> IF r.invoked THEN out ELSE NotAsked,
                   saveOk |-> IF r.saving THEN saveOk ELSE TRUE]
        /\ stored' = IF r.saving /\ saveOk THEN [stored EXCEPT ![p] = out.groups]
                      ELSE stored
  /\ phase' = "run"
  /\ UNCHANGED <<now, cps>>

Responses == {"y", "yes", "n", "eof"}

\* The body of the loop of CheckExpiredCaches for one provider: st holds the
\* instances and the directory so far, and the answers given to the prompts
\* that were shown.
CheckOne(st, p, t, response, removeOk) ==
  LET cp == st.cps[p]
      cacheFile == CacheFileOf(cp)
      entry == loadFromCache(st.fs, cacheFile)
  IN IF ~(entry.ok /\ t - entry.Timestamp >= TTL) THEN st
     ELSE IF response = "eof" THEN [st EXCEPT !.answers[p] = response]
     ELSE IF response \in {"y", "yes"}
     THEN [st EXCEPT !.cps[p].useExpiredCache = TRUE, !.answers[p] = response]
     ELSE IF removeOk
     THEN [st EXCEPT !.fs.files[cacheFile] = Absent, !.answers[p] = response]
     ELSE [st EXCEPT !.answers[p] = response, !.removeFailed = TRUE]

RECURSIVE CheckLoop(_, _, _, _, _)
CheckLoop(st, p, t, responses, removeOk) ==
  IF p > Len(ProviderConfigs) THEN st
  ELSE CheckLoop(CheckOne(st, p, t, responses[p], removeOk), p + 1, t,
                 responses, removeOk)

NotPrompted == "-"

\* CheckExpiredCaches(providers), once at the start of a session: responses[p]
\* is the operator's answer to the prompt for provider p (if it is shown),
\* removeOk says whether os.Remove works during this call.
CheckExpiredCaches(responses, removeOk) ==
  /\ phase = "start"
  /\ \E st \in {CheckLoop([cps |-> cps, fs |-> disk,
                           answers |-> [p \in ProvIds |-> NotPrompted],
                           removeFailed |-> FALSE], 1, now, responses, removeOk)} :
        /\ cps' = st.cps
        /\ disk' = st.fs
        /\ stored' = [p \in ProvIds |->
                        IF st.fs.files[CacheFileOf(cps[p])] = Absent THEN NoForest
                        ELSE stored[p]]
        /\ ret' = [op |-> "CheckExpiredCaches", answers |-> st.answers,
                   removeFailed |-> st.removeFailed]
  /\ phase' = "run"
  /\ UNCHANGED now

\* A slip that deletes only the entry of the first configured provider.
DeletableFirstOnly(fs) ==
  {f \in FileNames : fs.files[f].kind # "absent" /\ f.ext = ".json"
                      /\ f = CacheFile(getCacheKey(NewCachedProvider(ProviderConfigs[1])))}

\* The directory entries ClearCache deletes: regular files named *.json.
Deletable(fs) ==
  {f \in FileNames : fs.files[f].kind # "absent" /\ f.ext = ".json"}

\* ClearCache, the whole clear-cache run: readDirErr says that ReadDir fails
\* on an existing directory, failing is the set of files os.Remove fails on.
ClearCache(readDirErr, failing) ==
  /\ phase = "idle"
  /\ failing \subseteq Deletable(disk)
  /\ IF ~disk.exists
     THEN /\ ret' = [op |-> "ClearCache", err |-> NoError, removed |-> {}]
          /\ UNCHANGED <<disk, stored>>
     ELSE IF readDirErr
     THEN /\ ret' = [op |-> "ClearCache", err |-> "failed to read cache directory",
                     removed |-> {}]
          /\ UNCHANGED <<disk, stored>>
     ELSE /\ disk' = [disk EXCEPT !.files =
                        [f \in FileNames |->
                           IF f \in Deletable(disk) \ failing THEN Absent
                           ELSE disk.files[f]]]
          /\ stored' = [p \in ProvIds |->
                          IF StoredFile(p) \in Deletable(disk) \ failing THEN NoForest
                          ELSE stored[p]]
          /\ ret' = [op |-> "ClearCache",
                     err |-> IF failing = {} THEN NoError
                             ELSE "some cache files could not be deleted",
                     removed |-> Deletable(disk) \ failing]
  /\ UNCHANGED <<now, phase, cps>>

(***************************************************************************)
(* The interactive controller (package tui).  m is the Model value held by *)
(* the event loop; the handlers are operators from a Model (and, where     *)
(* they touch it, the log directory) to the Model returned with a command. *)
(***************************************************************************)
AllHostsView == "AllHostsView"

GroupView == "GroupView"

HostView == "HostView"

BulkCommandView == "BulkCommandView"

NoCmd == "nil"

Quit == "tea.Quit"

LoadData == "loadData"

Batch == "tea.Batch"

\* The keys whose name is one character long.
KeyChars == {"q", "k", "j", "h", "l", " ", "/", "u", "s", "c", "x", "W"}

NoText == <<>>

NoGroup == <<>>

NoChoice == <<>>

NoFile == <<>>

NoResults == <<>>

\* newModelWithError: the Model a session starts with.
newModelWithError(err) ==
  [groups |-> <<>>, hosts |-> <<>>, filteredHosts |-> <<>>, filteredGroups |-> <<>>,
   currentGroup |-> NoGroup, viewMode |-> AllHostsView, cursorRow |-> 0, cursorCol |-> 0,
   gridCols |-> 3, terminalWidth |-> 80, terminalHeight |-> 24, choice |-> NoChoice,
   err |-> IF err = NoError THEN NoError ELSE "connection error",
   quitting |-> FALSE, loading |-> err = NoError,
   breadcrumb |-> << <<"All Hosts">> >>,
   filterMode |-> FALSE, filterText |-> NoText,
   usernameMode |-> FALSE, usernameText |-> NoText, customUsername |-> NoText,
   bulkSelectionMode |-> FALSE, bulkCommandMode |-> FALSE, bulkCommandText |-> NoText,
   selectedHosts |-> <<>>, bulkResults |-> NoResults, bulkOutputFile |-> NoFile]

\* What a handler returns: the Model and a command.
Return(mm, cmd) == [m |-> mm, cmd |-> cmd]

ToLowerChar(c) == CASE c = "W" -> "w" [] c = "A" -> "a" [] OTHER -> c

ToLower(s) == [i \in 1..Len(s) |-> ToLowerChar(s[i])]

Contains(s, sub) == \E i \in 0..(Len(s) - Len(sub)) : SubSeq(s, i + 1, i + Len(sub)) = sub

\* A matcher that looks at the name only.
HostMatchesNameOnly(host, filterLower) == Contains(ToLower(host.name), filterLower)

HostMatches(host, filterLower) ==
  \/ Contains(ToLower(host.name), filterLower)
  \/ Contains(ToLower(host.hostname), filterLower)

resetCursor(mm) == [mm EXCEPT !.cursorRow = 0, !.cursorCol = 0]

\* A group filter that looks at a group's own hosts only.
updateFilteredDataDirectHosts(mm) ==
  IF mm.filterText = NoText
  THEN [mm EXCEPT !.filteredHosts = mm.hosts, !.filteredGroups = mm.groups]
  ELSE LET filterLower == ToLower(mm.filterText)
           GroupMatches(g) ==
             \/ \E i \in 1..Len(g.hosts) : HostMatches(g.hosts[i], filterLower)
             \/ Contains(ToLower(g.name), filterLower)
       IN [mm EXCEPT
            !.filteredHosts = SelectSeq(mm.hosts, LAMBDA h : HostMatches(h, filterLower)),
            !.filteredGroups = SelectSeq(mm.groups, GroupMatches),
            !.cursorRow = 0, !.cursorCol = 0]

updateFilteredData(mm) ==
  IF mm.filterText = NoText
  THEN [mm EXCEPT !.filteredHosts = mm.hosts, !.filteredGroups = mm.groups]
  ELSE LET filterLower == ToLower(mm.filterText)
           GroupMatches(g) ==
             \/ \E i \in 1..Len(AllHosts(g)) : HostMatches(AllHosts(g)[i], filterLower)
             \/ Contains(ToLower(g.name), filterLower)
       IN resetCursor([mm EXCEPT
            !.filteredHosts = SelectSeq(mm.hosts, LAMBDA h : HostMatches(h, filterLower)),
            !.filteredGroups = SelectSeq(mm.groups, GroupMatches)])

getFilteredGroupHosts(mm) ==
  IF mm.currentGroup = NoGroup THEN <<>>
  ELSE IF mm.filterText = NoText THEN mm.currentGroup[1].hosts
  ELSE SelectSeq(mm.currentGroup[1].hosts,
                 LAMBDA h : HostMatches(h, ToLower(mm.filterText)))

getCurrentItems(mm) ==
  CASE mm.viewMode = AllHostsView ->
         IF mm.currentGroup # NoGroup THEN getFilteredGroupHosts(mm) ELSE mm.filteredHosts
    [] mm.viewMode = GroupView -> mm.filteredGroups
    [] mm.viewMode = HostView -> getFilteredGroupHosts(mm)
    [] OTHER -> <<>>

getCurrentItemCount(mm) == Len(getCurrentItems(mm))

\* <<rows, cols>>
getGridDimensions(mm) ==
  LET itemCount == getCurrentItemCount(mm)
      cols == IF mm.gridCols <= 0 THEN 1 ELSE mm.gridCols
  IN IF itemCount = 0 THEN <<0, 0>> ELSE <<(itemCount + cols - 1) \div cols, cols>>

getCurrentIndex(mm) ==
  LET cols == getGridDimensions(mm)[2]
  IN IF cols <= 0 THEN 0 ELSE mm.cursorRow * cols + mm.cursorCol

\* The hosts that select and toggle act on.
ActiveHosts(mm) ==
  CASE mm.viewMode = AllHostsView -> mm.filteredHosts
    [] mm.viewMode = HostView -> getFilteredGroupHosts(mm)
    [] OTHER -> <<>>

SameHost(h1, h2) == h1.name = h2.name /\ h1.hostname = h2.hostname

RemoveAt(s, i) == SubSeq(s, 1, i - 1) \o SubSeq(s, i + 1, Len(s))

\* A toggle that appends whether or not the host is selected.
toggleHostSelectionAppendOnly(mm) ==
  IF Len(ActiveHosts(mm)) > 0 /\ getCurrentIndex(mm) < Len(ActiveHosts(mm))
  THEN Return([mm EXCEPT !.selectedHosts =
                 Append(mm.selectedHosts, ActiveHosts(mm)[getCurrentIndex(mm) + 1])], NoCmd)
  ELSE Return(mm, NoCmd)

toggleHostSelection(mm) ==
  LET currentIndex == getCurrentIndex(mm)
      hosts == ActiveHosts(mm)
  IN IF Len(hosts) > 0 /\ currentIndex < Len(hosts)
     THEN LET selectedHost == hosts[currentIndex + 1]
              found == {i \in 1..Len(mm.selectedHosts) :
                          SameHost(mm.selectedHosts[i], selectedHost)}
          IN IF found # {}
             THEN LET i == CHOOSE j \in found : \A j2 \in found : j <= j2
                  IN Return([mm EXCEPT !.selectedHosts = RemoveAt(mm.selectedHosts, i)], NoCmd)
             ELSE Return([mm EXCEPT !.selectedHosts = Append(mm.selectedHosts, selectedHost)],
                         NoCmd)
     ELSE Return(mm, NoCmd)

moveUp(mm) ==
  Return(IF mm.cursorRow > 0 THEN [mm EXCEPT !.cursorRow = mm.cursorRow - 1] ELSE mm, NoCmd)

\* A move down that looks at the row count only.
moveDownRowsOnly(mm) ==
  Return(IF mm.cursorRow < getGridDimensions(mm)[1] - 1
         THEN [mm EXCEPT !.cursorRow = mm.cursorRow + 1] ELSE mm, NoCmd)

moveDown(mm) ==
  LET rows == getGridDimensions(mm)[1]
  IN Return(IF /\ mm.cursorRow < rows - 1
               /\ getCurrentIndex(mm) + mm.gridCols < getCurrentItemCount(mm)
            THEN [mm EXCEPT !.cursorRow = mm.cursorRow + 1] ELSE mm, NoCmd)

moveLeft(mm) ==
  Return(IF mm.cursorCol > 0 THEN [mm EXCEPT !.cursorCol = mm.cursorCol - 1] ELSE mm, NoCmd)

\* A move right that stops one column before the last.
moveRightStopsEarly(mm) ==
  LET cols == getGridDimensions(mm)[2]
  IN Return(IF /\ mm.cursorCol < cols - 2
               /\ getCurrentIndex(mm) + 1 < getCurrentItemCount(mm)
            THEN [mm EXCEPT !.cursorCol = mm.cursorCol + 1] ELSE mm, NoCmd)

moveRight(mm) ==
  LET cols == getGridDimensions(mm)[2]
  IN Return(IF /\ mm.cursorCol < cols - 1
               /\ getCurrentIndex(mm) + 1 < getCurrentItemCount(mm)
            THEN [mm EXCEPT !.cursorCol = mm.cursorCol + 1] ELSE mm, NoCmd)

\* An enterGroup that always takes the first group of the list.
enterGroupFirst(mm) ==
  IF Len(mm.filteredGroups) = 0 THEN Return(mm, NoCmd)
  ELSE Return(resetCursor([mm EXCEPT
                !.currentGroup = <<mm.filteredGroups[1]>>,
                !.viewMode = HostView,
                !.breadcrumb = Append(mm.breadcrumb, mm.filteredGroups[1].name)]), NoCmd)

\* An enterGroup that leaves the breadcrumb as it is.
enterGroupNoCrumb(mm) ==
  LET currentIndex == getCurrentIndex(mm)
  IN IF Len(mm.filteredGroups) = 0 \/ currentIndex >= Len(mm.filteredGroups)
     THEN Return(mm, NoCmd)
     ELSE Return(resetCursor([mm EXCEPT
                   !.currentGroup = <<mm.filteredGroups[currentIndex + 1]>>,
                   !.viewMode = HostView]), NoCmd)

enterGroup(mm) ==
  LET currentIndex == getCurrentIndex(mm)
  IN IF Len(mm.filteredGroups) = 0 \/ currentIndex >= Len(mm.filteredGroups)
     THEN Return(mm, NoCmd)
     ELSE LET selectedGroup == mm.filteredGroups[currentIndex + 1]
          IN Return(resetCursor([mm EXCEPT
                      !.currentGroup = <<selectedGroup>>,
                      !.viewMode = HostView,
                      !.breadcrumb = Append(mm.breadcrumb, selectedGroup.name)]), NoCmd)

\* A selectHost that always takes the first host of the list.
selectHostFirst(mm) ==
  IF Len(ActiveHosts(mm)) > 0
  THEN Return([mm EXCEPT !.choice = <<ActiveHosts(mm)[1]>>, !.customUsername = NoText,
                         !.quitting = TRUE], Quit)
  ELSE Return(mm, NoCmd)

\* A selectHost that leaves the username override as it is.
selectHostKeepUsername(mm) ==
  LET currentIndex == getCurrentIndex(mm)
      hosts == ActiveHosts(mm)
  IN IF Len(hosts) > 0 /\ currentIndex < Len(hosts)
     THEN Return([mm EXCEPT !.choice = <<hosts[currentIndex + 1]>>, !.quitting = TRUE], Quit)
     ELSE Return(mm, NoCmd)

selectHost(mm) ==
  LET currentIndex == getCurrentIndex(mm)
      hosts == ActiveHosts(mm)
  IN IF Len(hosts) > 0 /\ currentIndex < Len(hosts)
     THEN Return([mm EXCEPT !.choice = <<hosts[currentIndex + 1]>>,
                            !.customUsername = NoText,
                            !.quitting = TRUE], Quit)
     ELSE Return(mm, NoCmd)

selectHostWithUsername(mm) ==
  LET currentIndex == getCurrentIndex(mm)
      hosts == ActiveHosts(mm)
  IN IF Len(hosts) > 0 /\ currentIndex < Len(hosts)
     THEN Return([mm EXCEPT !.choice = <<hosts[currentIndex + 1]>>, !.quitting = TRUE], Quit)
     ELSE Return(mm, NoCmd)

\* A switchView that keeps the bulk results when it leaves the bulk view.
switchViewKeepResults(mm) ==
  Return([resetCursor(mm) EXCEPT
            !.viewMode = IF mm.viewMode = AllHostsView THEN GroupView ELSE AllHostsView,
            !.breadcrumb = IF mm.viewMode = AllHostsView THEN << <<"All Groups">> >>
                           ELSE << <<"All Hosts">> >>,
            !.currentGroup = NoGroup,
            !.bulkSelectionMode = (mm.viewMode # BulkCommandView /\ mm.bulkSelectionMode),
            !.selectedHosts = IF mm.viewMode = BulkCommandView THEN <<>>
                              ELSE mm.selectedHosts,
            !.bulkOutputFile = IF mm.viewMode = BulkCommandView THEN NoFile
                               ELSE mm.bulkOutputFile], NoCmd)

\* A switchView that leaves the cursor where it is.
switchViewKeepCursor(mm) ==
  Return(CASE mm.viewMode = AllHostsView ->
                [mm EXCEPT !.viewMode = GroupView, !.breadcrumb = << <<"All Groups">> >>,
                           !.currentGroup = NoGroup]
           [] OTHER ->
                [mm EXCEPT !.viewMode = AllHostsView, !.breadcrumb = << <<"All Hosts">> >>,
                           !.currentGroup = NoGroup], NoCmd)

switchView(mm) ==
  LET m1 == resetCursor(mm)
  IN Return(
       CASE m1.viewMode = AllHostsView ->
              [m1 EXCEPT !.viewMode = GroupView, !.breadcrumb = << <<"All Groups">> >>,
                         !.currentGroup = NoGroup]
         [] m1.viewMode \in {GroupView, HostView} ->
              [m1 EXCEPT !.viewMode = AllHostsView, !.breadcrumb = << <<"All Hosts">> >>,
                         !.currentGroup = NoGroup]
         [] m1.viewMode = BulkCommandView ->
              [m1 EXCEPT !.viewMode = AllHostsView, !.breadcrumb = << <<"All Hosts">> >>,
                         !.currentGroup = NoGroup, !.bulkSelectionMode = FALSE,
                         !.selectedHosts = <<>>, !.bulkResults = NoResults,
                         !.bulkOutputFile = NoFile],
       NoCmd)

\* A backToGroups that drops every label of the breadcrumb.
backToGroupsDropAll(mm) ==
  Return(resetCursor([mm EXCEPT !.breadcrumb = <<>>, !.viewMode = GroupView,
                                !.currentGroup = NoGroup]), NoCmd)

\* A backToGroups that keeps the group entered.
backToGroupsKeepGroup(mm) ==
  Return(resetCursor([mm EXCEPT
           !.breadcrumb = IF Len(mm.breadcrumb) > 1
                          THEN SubSeq(mm.breadcrumb, 1, Len(mm.breadcrumb) - 1)
                          ELSE mm.breadcrumb,
           !.viewMode = GroupView]), NoCmd)

backToGroups(mm) ==
  LET m1 == IF Len(mm.breadcrumb) > 1
            THEN [mm EXCEPT !.breadcrumb = SubSeq(mm.breadcrumb, 1, Len(mm.breadcrumb) - 1)]
            ELSE mm
      m2 == IF Len(m1.breadcrumb) = 1 /\ m1.breadcrumb[1] = <<"All Groups">>
            THEN [m1 EXCEPT !.viewMode = GroupView, !.currentGroup = NoGroup]
            ELSE m1
  IN Return(resetCursor(m2), NoCmd)

(***************************************************************************)
(* Bulk command execution and its session log.  The log directory maps a   *)
(* file path (named after the second the run was submitted in) to what the *)
(* file holds: a sequence of written pieces, the header first.             *)
(***************************************************************************)
\* fmt.Sprintf("%s@%s", host.Name, host.Hostname)
ResultKey(host) == host.name \o <<"@">> \o host.hostname

LogPath(t) == <<t>>

LogPaths == {LogPath(t) : t \in 0..MaxTime}

MissingFile == [exists |-> FALSE, content |-> <<>>]

NoLogs == [path \in LogPaths |-> MissingFile]

\* What can go wrong while the log is set up: nothing, os.UserHomeDir,
\* os.MkdirAll, os.Create, or writing the header.
LogSetups == {"ok", "home", "mkdir", "create", "write"}

\* initializeBulkOutputFile: <<error, directory afterwards>>
initializeBulkOutputFile(mm, fs, io) ==
  IF io.setup = "create" THEN [err |-> "create failed", logs |-> fs]
  ELSE IF io.setup = "write"
  THEN [err |-> "write failed",
        logs |-> [fs EXCEPT ![mm.bulkOutputFile] = [exists |-> TRUE, content |-> <<>>]]]
  ELSE [err |-> NoError,
        logs |-> [fs EXCEPT ![mm.bulkOutputFile] =
                    [exists |-> TRUE,
                     content |-> <<[kind |-> "header", timestamp |-> io.t,
                                    command |-> mm.bulkCommandText,
                                    hosts |-> Len(mm.selectedHosts)]>>]]]

\* The last of the selected hosts that has the key k.
LastWithKey(hosts, k) ==
  hosts[CHOOSE i \in 1..Len(hosts) :
          /\ ResultKey(hosts[i]) = k
          /\ \A j \in (i + 1)..Len(hosts) : ResultKey(hosts[j]) # k]

\* executeBulkCommand: io is the clock reading and the fate of the log setup.
executeBulkCommand(mm, fs, io) ==
  IF Len(mm.selectedHosts) = 0
  THEN [m |-> mm, cmd |-> NoCmd, logs |-> fs, readsEnv |-> FALSE]
  ELSE LET m1 == [mm EXCEPT !.viewMode = BulkCommandView,
                            !.breadcrumb = << <<"Bulk Command: ">> \o mm.bulkCommandText >>,
                            !.bulkSelectionMode = FALSE]
           m2 == [m1 EXCEPT !.bulkOutputFile = LogPath(io.t)]
           init == initializeBulkOutputFile(m2, fs, io)
           keys == {ResultKey(mm.selectedHosts[i]) : i \in 1..Len(mm.selectedHosts)}
       IN IF io.setup = "home"
          THEN [m |-> [m1 EXCEPT !.err = "failed to get home directory"], cmd |-> NoCmd,
                logs |-> fs, readsEnv |-> TRUE]
          ELSE IF io.setup = "mkdir"
          THEN [m |-> [m1 EXCEPT !.err = "failed to create logs directory"], cmd |-> NoCmd,
                logs |-> fs, readsEnv |-> TRUE]
          ELSE IF init.err # NoError
          THEN [m |-> [m2 EXCEPT !.err = "failed to create output file"], cmd |-> NoCmd,
                logs |-> init.logs, readsEnv |-> TRUE]
          ELSE [m |-> [m2 EXCEPT !.bulkResults =
                         [k \in keys |-> [Host |-> LastWithKey(mm.selectedHosts, k),
                                          Output |-> NoText, Error |-> NoError,
                                          Done |-> FALSE]]],
                cmd |-> Batch, logs |-> init.logs, readsEnv |-> TRUE]

\* A saveBulkResult that writes the block at the start of the file.
saveBulkResultAtStart(mm, fs, host, output, execErr, appendOk) ==
  IF mm.bulkOutputFile = NoFile THEN [err |-> NoError, logs |-> fs]
  ELSE IF ~fs[mm.bulkOutputFile].exists \/ ~appendOk
  THEN [err |-> "append failed", logs |-> fs]
  ELSE [err |-> NoError,
        logs |-> [fs EXCEPT ![mm.bulkOutputFile].content =
                    <<[kind |-> "block", name |-> host.name,
                       hostname |-> host.hostname, error |-> execErr,
                       output |-> output]>> \o @]]

\* saveBulkResult: <<error, directory afterwards>>
saveBulkResult(mm, fs, host, output, execErr, appendOk) ==
  IF mm.bulkOutputFile = NoFile THEN [err |-> NoError, logs |-> fs]
  ELSE IF ~fs[mm.bulkOutputFile].exists \/ ~appendOk
  THEN [err |-> "append failed", logs |-> fs]
  ELSE [err |-> NoError,
        logs |-> [fs EXCEPT ![mm.bulkOutputFile].content =
                    Append(@, [kind |-> "block", name |-> host.name,
                               hostname |-> host.hostname, error |-> execErr,
                               output |-> output])]]

(***************************************************************************)
(* The text entry sub-modes.                                               *)
(***************************************************************************)
DropLast(s) == SubSeq(s, 1, Len(s) - 1)

handleFilterInput(mm, key) ==
  CASE key = "enter" -> Return(updateFilteredData([mm EXCEPT !.filterMode = FALSE]), NoCmd)
    [] key = "esc" -> Return([mm EXCEPT !.filterMode = FALSE], NoCmd)
    [] key = "backspace" ->
         Return(IF Len(mm.filterText) > 0
                THEN updateFilteredData([mm EXCEPT !.filterText = DropLast(mm.filterText)])
                ELSE mm, NoCmd)
    [] OTHER ->
         Return(IF key \in KeyChars
                THEN updateFilteredData([mm EXCEPT !.filterText = Append(mm.filterText, key)])
                ELSE mm, NoCmd)

\* A username entry in which "/" opens the filter entry on top of it.
handleUsernameInputSlashFilters(mm, key) ==
  CASE key = "/" -> Return([mm EXCEPT !.filterMode = TRUE], NoCmd)
    [] key = "esc" -> Return([mm EXCEPT !.usernameMode = FALSE, !.usernameText = NoText], NoCmd)
    [] OTHER ->
         Return(IF key \in KeyChars
                THEN [mm EXCEPT !.usernameText = Append(mm.usernameText, key)] ELSE mm, NoCmd)

\* A username entry in which the quit letter quits.
handleUsernameInputQuitOnQ(mm, key) ==
  CASE key = "q" -> Return([mm EXCEPT !.quitting = TRUE], Quit)
    [] key = "esc" -> Return([mm EXCEPT !.usernameMode = FALSE, !.usernameText = NoText], NoCmd)
    [] OTHER ->
         Return(IF key \in KeyChars
                THEN [mm EXCEPT !.usernameText = Append(mm.usernameText, key)] ELSE mm, NoCmd)

handleUsernameInput(mm, key) ==
  CASE key = "enter" ->
         IF mm.usernameText # NoText
         THEN selectHostWithUsername([mm EXCEPT !.usernameMode = FALSE,
                                                !.customUsername = mm.usernameText])
         ELSE Return([mm EXCEPT !.usernameMode = FALSE], NoCmd)
    [] key = "esc" -> Return([mm EXCEPT !.usernameMode = FALSE, !.usernameText = NoText], NoCmd)
    [] key = "backspace" ->
         Return(IF Len(mm.usernameText) > 0
                THEN [mm EXCEPT !.usernameText = DropLast(mm.usernameText)] ELSE mm, NoCmd)
    [] OTHER ->
         Return(IF key \in KeyChars
                THEN [mm EXCEPT !.usernameText = Append(mm.usernameText, key)] ELSE mm, NoCmd)

\* A handler that leaves the log directory alone.
Plain(r, fs) == [m |-> r.m, cmd |-> r.cmd, logs |-> fs, readsEnv |-> FALSE]

handleBulkCommandInput(mm, fs, key, io) ==
  CASE key = "enter" ->
         IF mm.bulkCommandText # NoText
         THEN executeBulkCommand([mm EXCEPT !.bulkCommandMode = FALSE], fs, io)
         ELSE Plain(Return([mm EXCEPT !.bulkCommandMode = FALSE], NoCmd), fs)
    [] key = "esc" ->
         Plain(Return([mm EXCEPT !.bulkCommandMode = FALSE, !.bulkCommandText = NoText],
                      NoCmd), fs)
    [] key = "backspace" ->
         Plain(Return(IF Len(mm.bulkCommandText) > 0
                      THEN [mm EXCEPT !.bulkCommandText = DropLast(mm.bulkCommandText)]
                      ELSE mm, NoCmd), fs)
    [] OTHER ->
         Plain(Return(IF key \in KeyChars
                      THEN [mm EXCEPT !.bulkCommandText = Append(mm.bulkCommandText, key)]
                      ELSE mm, NoCmd), fs)

(***************************************************************************)
(* Update, one operator per message type.                                  *)
(***************************************************************************)
\* The key switch of Update, reached when no error is shown and no entry
\* sub-mode is active.
UpdateNormalKey(mm, key) ==
  CASE key \in {"ctrl+c", "q"} -> Return([mm EXCEPT !.quitting = TRUE], Quit)
    [] key \in {"up", "k"} -> moveUp(mm)
    [] key \in {"down", "j"} -> moveDown(mm)
    [] key \in {"left", "h"} ->
         IF mm.viewMode = HostView /\ mm.cursorCol = 0 THEN backToGroups(mm) ELSE moveLeft(mm)
    [] key \in {"right", "l"} -> moveRight(mm)
    [] key \in {"enter", " "} ->
         IF mm.bulkSelectionMode /\ mm.viewMode # GroupView THEN toggleHostSelection(mm)
         ELSE IF mm.viewMode = GroupView THEN enterGroup(mm)
         ELSE selectHost(mm)
    [] key = "backspace" ->
         IF mm.viewMode = HostView THEN backToGroups(mm) ELSE Return(mm, NoCmd)
    [] key = "tab" -> switchView(mm)
    [] key = "/" -> Return([mm EXCEPT !.filterMode = TRUE], NoCmd)
    [] key = "u" ->
         IF mm.viewMode # GroupView
         THEN Return([mm EXCEPT !.usernameMode = TRUE, !.usernameText = NoText], NoCmd)
         ELSE Return(mm, NoCmd)
    [] key = "s" ->
         IF mm.viewMode # GroupView /\ mm.viewMode # BulkCommandView
         THEN Return([mm EXCEPT !.bulkSelectionMode = ~mm.bulkSelectionMode,
                                !.selectedHosts = IF mm.bulkSelectionMode THEN <<>>
                                                  ELSE mm.selectedHosts], NoCmd)
         ELSE Return(mm, NoCmd)
    [] key = "c" ->
         IF mm.bulkSelectionMode /\ Len(mm.selectedHosts) > 0
         THEN Return([mm EXCEPT !.bulkCommandMode = TRUE, !.bulkCommandText = NoText], NoCmd)
         ELSE Return(mm, NoCmd)
    [] key = "esc" ->
         IF mm.filterText # NoText
         THEN Return(updateFilteredData([mm EXCEPT !.filterText = NoText]), NoCmd)
         ELSE Return(mm, NoCmd)
    [] OTHER -> Return(mm, NoCmd)

\* An Update that asks for the entry sub-modes before the error.
UpdateKeyMsgSubModeFirst(mm, fs, key, io) ==
  IF mm.filterMode THEN Plain(handleFilterInput(mm, key), fs)
  ELSE IF mm.usernameMode THEN Plain(handleUsernameInput(mm, key), fs)
  ELSE IF mm.bulkCommandMode THEN handleBulkCommandInput(mm, fs, key, io)
  ELSE IF mm.err # NoError
  THEN IF key \in {"ctrl+c", "q"}
       THEN Plain(Return([mm EXCEPT !.quitting = TRUE], Quit), fs)
       ELSE Plain(Return([mm EXCEPT !.err = NoError, !.loading = TRUE], LoadData), fs)
  ELSE Plain(UpdateNormalKey(mm, key), fs)

\* Update on a tea.KeyMsg.
UpdateKeyMsg(mm, fs, key, io) ==
  IF mm.err # NoError
  THEN IF key \in {"ctrl+c", "q"}
       THEN Plain(Return([mm EXCEPT !.quitting = TRUE], Quit), fs)
       ELSE Plain(Return([mm EXCEPT !.err = NoError, !.loading = TRUE], LoadData), fs)
  ELSE IF mm.filterMode THEN Plain(handleFilterInput(mm, key), fs)
  ELSE IF mm.usernameMode THEN Plain(handleUsernameInput(mm, key), fs)
  ELSE IF mm.bulkCommandMode THEN handleBulkCommandInput(mm, fs, key, io)
  ELSE Plain(UpdateNormalKey(mm, key), fs)

RECURSIVE LoadLoop(_, _, _, _)
LoadLoop(outs, i, allGroups, allHosts) ==
  IF i > Len(outs) THEN [groups |-> allGroups, hosts |-> allHosts, err |-> NoError]
  ELSE IF outs[i].err # NoError
  THEN [groups |-> <<>>, hosts |-> <<>>, err |-> "failed to load data"]
  ELSE LET RECURSIVE Flatten(_, _)
           Flatten(j, acc) == IF j > Len(outs[i].groups) THEN acc
                              ELSE Flatten(j + 1, acc \o AllHosts(outs[i].groups[j]))
       IN LoadLoop(outs, i + 1, allGroups \o outs[i].groups, Flatten(1, allHosts))

\* A loadData that leaves out the providers whose fetch fails.
loadDataSkipFailed(outs) ==
  LoadLoop(SelectSeq(outs, LAMBDA o : o.err = NoError), 1, <<>>, <<>>)

\* loadData: the dataLoadedMsg built from what the providers answer.
loadData(outs) == LoadLoop(outs, 1, <<>>, <<>>)

\* Update on a dataLoadedMsg.
UpdateDataLoaded(mm, msg) ==
  updateFilteredData([mm EXCEPT !.loading = FALSE, !.groups = msg.groups,
                                !.hosts = msg.hosts,
                                !.err = IF msg.err # NoError THEN msg.err ELSE mm.err])

\* Update on a bulkCommandFinishedMsg: the Model, the log directory, and
\* whether the warning about the log was printed.
UpdateBulkCommandFinished(mm, fs, msg, appendOk) ==
  LET key == ResultKey(msg.host)
  IN IF key \in DOMAIN mm.bulkResults
     THEN LET saved == saveBulkResult(mm, fs, msg.host, msg.output, msg.err, appendOk)
          IN [m |-> [mm EXCEPT !.bulkResults[key] =
                       [@ EXCEPT !.Output = msg.output, !.Error = msg.err, !.Done = TRUE]],
              logs |-> saved.logs, warned |-> saved.err # NoError]
     ELSE [m |-> mm, logs |-> fs, warned |-> FALSE]

\* renderBulkCommandView: the progress line, <<completed, total>>.
Progress(mm) ==
  <<Cardinality({k \in DOMAIN mm.bulkResults : mm.bulkResults[k].Done}),
    Cardinality(DOMAIN mm.bulkResults)>>

\* Update on a tea.WindowSizeMsg.
UpdateWindowSize(mm, width, height) ==
  [mm EXCEPT !.terminalWidth = width, !.terminalHeight = height]

\* renderGridView: the width left for the grid beside the details panel.
availableWidth(mm) == mm.terminalWidth - 40 - 6

\* renderGrid: the number of columns the grid is laid out in.
adjustedGridCols(mm) ==
  IF availableWidth(mm) < 80 THEN 1
  ELSE IF availableWidth(mm) < 120 THEN 2
  ELSE mm.gridCols

\* renderGrid: the indices into the current items of the cells drawn with
\* the selection marker.
renderGridSelected(mm) ==
  LET itemCount == getCurrentItemCount(mm)
      cols == adjustedGridCols(mm)
      rows == (itemCount + cols - 1) \div cols
  IN {row * cols + col : <<row, col>> \in
        {rc \in (0..(rows - 1)) \X (0..(cols - 1)) :
            /\ rc[1] * cols + rc[2] < itemCount
            /\ rc[1] = mm.cursorRow
            /\ rc[2] = mm.cursorCol}}

(***************************************************************************)
(* The session as a state machine: the event loop applies one message at a *)
(* time to m; the commands it started run concurrently and deliver their   *)
(* message later, in any order.                                            *)
(***************************************************************************)
\* The forest the providers deliver: C is a host of the nested group only.
TuiForest == <<Group(<<"p">>, <<HostA, HostB>>, <<Group(<<"q">>, <<HostC>>, <<>>)>>)>>

LoadOutcomes == {[groups |-> TuiForest, err |-> NoError], [groups |-> <<>>, err |-> FetchError]}

\* What ssh.ExecuteCommand returns for one host.
ExecOutcomes == {[output |-> <<"o">>, err |-> NoError],
                 [output |-> NoText, err |-> "exit status 1"]}

\* The keys the operator presses in this model.
Keys == {"enter", "s", "c", "right", "tab"}

DefaultIo == [t |-> now, setup |-> "ok"]

Ios == {[t |-> t, setup |-> s] : t \in {u \in {now, now + 1} : u <= MaxTime}, s \in LogSetups}

\* The typed texts and the selection stay within the bounds of the model.
WithinBounds(mm) ==
  /\ Len(mm.filterText) <= MaxText
  /\ Len(mm.usernameText) <= MaxText
  /\ Len(mm.bulkCommandText) <= MaxText
  /\ Len(mm.selectedHosts) <= MaxSelected

\* The tasks of tea.Batch in executeBulkCommand, one per selected host.
BatchTasks(mm, run) ==
  {[host |-> mm.selectedHosts[i], command |-> mm.bulkCommandText, run |-> run] :
     i \in 1..Len(mm.selectedHosts)}

\* The event loop applies a key press.
KeyMsg(key, maxRuns, maxLoads) ==
  /\ ~m.quitting
  /\ \E io \in (IF UpdateKeyMsg(m, logs, key, DefaultIo).readsEnv THEN Ios ELSE {DefaultIo}) :
     \E r \in {UpdateKeyMsg(m, logs, key, io)} :
        /\ WithinBounds(r.m)
        /\ r.readsEnv => runs < maxRuns
        /\ r.cmd = LoadData => loads < maxLoads
        /\ m' = r.m
        /\ logs' = r.logs
        /\ now' = IF r.readsEnv THEN io.t ELSE now
        /\ runs' = IF r.readsEnv THEN runs + 1 ELSE runs
        /\ loads' = CASE r.cmd = LoadData -> loads + 1
                      [] r.cmd = Quit -> 0
                      [] OTHER -> loads
        /\ pending' = CASE r.cmd = Batch -> pending \cup BatchTasks(r.m, runs + 1)
                        [] r.cmd = Quit -> {}
                        [] OTHER -> pending

\* A loadData command delivers its dataLoadedMsg.
DataLoaded(outs) ==
  /\ ~m.quitting
  /\ loads > 0
  /\ m' = UpdateDataLoaded(m, loadData(outs))
  /\ loads' = loads - 1
  /\ UNCHANGED <<pending, logs, runs, now>>

\* A per-host task delivers its bulkCommandFinishedMsg.
BulkCommandFinished(task, out, appendOk) ==
  /\ ~m.quitting
  /\ task \in pending
  /\ \E r \in {UpdateBulkCommandFinished(m, logs,
                  [host |-> task.host, output |-> out.output, err |-> out.err], appendOk)} :
        /\ m' = r.m
        /\ logs' = r.logs
  /\ pending' = pending \ {task}
  /\ UNCHANGED <<loads, runs, now>>

CacheStartSession == StartSession /\ UNCHANGED <<groupVars, tuiVars>>

CacheEndSession == EndSession /\ UNCHANGED <<groupVars, tuiVars>>

CacheTick == Tick /\ UNCHANGED <<groupVars, tuiVars>>

CacheFetch ==
  /\ \E p \in ProvIds, out \in SourceOutcomes, saveOk \in BOOLEAN : GetGroups(p, out, saveOk)
  /\ UNCHANGED <<groupVars, tuiVars>>

CacheResolve ==
  /\ \E responses \in [ProvIds -> Responses], removeOk \in BOOLEAN :
       CheckExpiredCaches(responses, removeOk)
  /\ UNCHANGED <<groupVars, tuiVars>>

CacheClear ==
  /\ \E readDirErr \in BOOLEAN, failing \in SUBSET CacheFiles : ClearCache(readDirErr, failing)
  /\ UNCHANGED <<groupVars, tuiVars>>

NextCache ==
  \/ CacheStartSession
  \/ CacheEndSession
  \/ CacheTick
  \/ CacheFetch
  \/ CacheResolve
  \/ CacheClear

NoDir == [exists |-> FALSE, files |-> EmptyDir]

NoneStored == [p \in ProvIds |-> NoForest]

LoneGroup == Group(<<"g">>, <<>>, <<>>)

InitGroup ==
  /\ tree \in Trees
  /\ result = NoResult
  /\ prevResult = NoResult
  /\ calls = 0
  /\ now = 0
  /\ disk = NoDir
  /\ phase = "idle"
  /\ cps = <<>>
  /\ ret = [op |-> "none"]
  /\ stored = NoneStored
  /\ m = newModelWithError(NoError)
  /\ pending = {}
  /\ loads = 0
  /\ logs = NoLogs
  /\ runs = 0

InitCache ==
  /\ now = 0
  /\ disk \in InitialDisks
  /\ phase = "idle"
  /\ cps = <<>>
  /\ ret = [op |-> "none"]
  /\ stored = NoneStored
  /\ tree = LoneGroup
  /\ result = NoResult
  /\ prevResult = NoResult
  /\ calls = 0
  /\ m = newModelWithError(NoError)
  /\ pending = {}
  /\ loads = 0
  /\ logs = NoLogs
  /\ runs = 0

GroupCall == CallAllHosts /\ UNCHANGED <<cacheVars, tuiVars>>

NextGroup ==
  \/ GroupCall

SpecGroup == InitGroup /\ [][NextGroup]_vars

SpecCache == InitCache /\ [][NextCache]_vars

idleVars == <<groupVars, disk, phase, cps, ret, stored>>

PressKey ==
  /\ \E key \in Keys : KeyMsg(key, MaxRuns, MaxLoads)
  /\ UNCHANGED idleVars

DeliverData ==
  /\ \E out \in LoadOutcomes : DataLoaded(<<out>>)
  /\ UNCHANGED idleVars

DeliverResult ==
  /\ \E task \in pending, out \in ExecOutcomes, appendOk \in BOOLEAN :
       BulkCommandFinished(task, out, appendOk)
  /\ UNCHANGED idleVars

\* A session starts from NewModel, or from NewModelWithError after a failed
\* connection.
Init ==
  /\ m \in {newModelWithError(e) : e \in {NoError, "ssh failed"}}
  /\ loads = (IF m.err = NoError THEN 1 ELSE 0)
  /\ pending = {}
  /\ logs = NoLogs
  /\ runs = 0
  /\ now = 0
  /\ disk = NoDir
  /\ phase = "idle"
  /\ cps = <<>>
  /\ ret = [op |-> "none"]
  /\ stored = NoneStored
  /\ tree = LoneGroup
  /\ result = NoResult
  /\ prevResult = NoResult
  /\ calls = 0

Next ==
  \/ PressKey
  \/ DeliverData
  \/ DeliverResult

Spec == Init /\ [][Next]_vars

(***************************************************************************)
(* Browsing: the operator filters, changes views, enters groups, resizes   *)
(* the terminal and picks a host.                                          *)
(***************************************************************************)
HostD == Host(<<"d">>, <<"d">>)

\* Two root groups: C is a host of the nested group only, and the second
\* group's name differs from the lower-case filter text only by case.
NavForest == <<Group(<<"p">>, <<HostA, HostB>>, <<Group(<<"q">>, <<HostC>>, <<>>)>>),
               Group(<<"W">>, <<HostD>>, <<>>)>>

NavLoadOutcomes == {[groups |-> NavForest, err |-> NoError],
                    [groups |-> <<>>, err |-> FetchError]}

\* The keys the operator presses while browsing.
NavKeys == {"/", "W", "c", "esc", "backspace", "enter", "tab",
            "right", "left", "down", "up", "u"}

\* <<width, height>> of the terminals the session runs in.
TermSizes == {<<80, 24>>, <<130, 24>>, <<170, 24>>}

\* The event loop applies a tea.WindowSizeMsg.
WindowSizeMsg(size) ==
  /\ ~m.quitting
  /\ m' = UpdateWindowSize(m, size[1], size[2])
  /\ UNCHANGED <<pending, loads, logs, runs, now>>

NavPressKey ==
  /\ \E key \in NavKeys : KeyMsg(key, MaxRuns, MaxLoads)
  /\ UNCHANGED idleVars

NavDeliverData ==
  /\ \E out \in NavLoadOutcomes : DataLoaded(<<out>>)
  /\ UNCHANGED idleVars

NavResize ==
  /\ \E size \in TermSizes : WindowSizeMsg(size)
  /\ UNCHANGED idleVars

NextNav ==
  \/ NavPressKey
  \/ NavDeliverData
  \/ NavResize

SpecNav == Init /\ [][NextNav]_vars

(***************************************************************************)
(* Text entry: the operator opens the filter, username and bulk command    *)
(* entries, types, commits and cancels.                                    *)
(***************************************************************************)
EntryPressKey ==
  /\ \E key \in {"/", "u", "s", "c", "enter", "esc", "backspace"} : KeyMsg(key, MaxRuns, MaxLoads)
  /\ UNCHANGED idleVars

NextEntry ==
  \/ EntryPressKey
  \/ DeliverData
  \/ DeliverResult

SpecEntry == Init /\ [][NextEntry]_vars

(***************************************************************************)
(* Bulk runs one after the other: the operator selects the host under the  *)
(* cursor, submits a command, leaves the bulk view with Tab and submits    *)
(* again, while the tasks of the earlier run may still be in flight; a key  *)
(* pressed on the error screen starts a fetch while another may be on its  *)
(* way.                                                                    *)
(***************************************************************************)
LatePressKey ==
  /\ \E key \in {"s", "c", "enter", "tab"} : KeyMsg(key, MaxRuns + 1, MaxLoads + 1)
  /\ UNCHANGED idleVars

NextLate ==
  \/ LatePressKey
  \/ DeliverData
  \/ DeliverResult

SpecLate == Init /\ [][NextLate]_vars

(***************************************************************************)
(* Startup: main loads the configuration, run builds one provider per      *)
(* configured provider and opens the session.  A configured provider is a  *)
(* type, a name and the "file" parameter, <<>> when the parameter is not   *)
(* given.                                                                  *)
(***************************************************************************)
\* NewProvider: the provider built for one configured provider, or the error.
NewProvider(config, cacheEnabled) ==
  IF config.type \in {<<"json">>, <<"ansible">>}
  THEN IF config.file = <<>>
       THEN [provider |-> <<>>, err |-> "provider requires 'file' config parameter"]
       ELSE [provider |->
               <<[name |-> config.name, providerType |-> config.type,
                  filePath |-> config.file[1], cached |-> cacheEnabled]>>,
             err |-> NoError]
  ELSE [provider |-> <<>>, err |-> "unknown provider type"]

\* run, up to the first tea.NewProgram: the providers the session is opened
\* with, or the error run returns instead of opening it.
RECURSIVE run(_, _, _)
run(cfg, i, providers) ==
  IF i > Len(cfg.providers)
  THEN [providers |-> providers, err |-> NoError, opened |-> TRUE]
  ELSE LET p == NewProvider(cfg.providers[i], cfg.cacheEnabled)
       IN IF p.err # NoError
          THEN [providers |-> <<>>, err |-> "failed to create provider", opened |-> FALSE]
          ELSE run(cfg, i + 1, providers \o p.provider)

\* The process starts with a configuration that config.Load has read.
InitSetup ==
  /\ \E n \in 0..MaxProviders :
       ret \in {[op |-> "config", cfg |-> [providers |-> ps, cacheEnabled |-> ce]] :
                  ps \in [1..n -> {[type |-> t, name |-> <<"c">>, file |-> f] :
                                    t \in {<<"json">>, <<"ansible">>, <<"x">>},
                                    f \in {<<>>, << <<"a">> >>}}],
                  ce \in BOOLEAN}
  /\ phase = "idle"
  /\ cps = <<>>
  /\ m = newModelWithError(NoError)
  /\ loads = 0
  /\ pending = {}
  /\ logs = NoLogs
  /\ runs = 0
  /\ now = 0
  /\ disk = NoDir
  /\ stored = NoneStored
  /\ tree = LoneGroup
  /\ result = NoResult
  /\ prevResult = NoResult
  /\ calls = 0

\* main calls run: the session is opened, and Model.Init starts the fetch,
\* or the error is printed and the process exits with status 1.
Startup ==
  /\ phase = "idle"
  /\ \E r \in {run(ret.cfg, 1, <<>>)} :
       /\ ret' = [op |-> "run", cfg |-> ret.cfg, err |-> r.err,
                  exit |-> IF r.err = NoError THEN 0 ELSE 1]
       /\ phase' = IF r.opened THEN "session" ELSE "exit"
       /\ cps' = r.providers
       /\ loads' = IF r.opened THEN 1 ELSE 0
  /\ UNCHANGED <<groupVars, now, disk, stored, m, pending, logs, runs>>

\* The fetch of the opened session asks every provider and delivers.
SetupDeliverData ==
  /\ phase = "session"
  /\ \E outs \in [1..Len(cps) -> SourceOutcomes] : DataLoaded(outs)
  /\ UNCHANGED idleVars

NextSetup ==
  \/ Startup
  \/ SetupDeliverData

SpecSetup == InitSetup /\ [][NextSetup]_vars

(***************************************************************************)
(* The grid cursor on its own: a list of n items in a grid of c columns,   *)
(* and the four move operations.                                           *)
(***************************************************************************)
\* The Model showing n hosts in AllHosts with gridCols = c.
GridModel(n, c) ==
  LET Letters == <<"a", "b", "c", "d", "e", "f", "g", "h", "i", "j", "k", "l">>
      Items == [i \in 1..n |-> Host(<<"n">>, <<Letters[i]>>)]
  IN updateFilteredData([newModelWithError(NoError) EXCEPT
                           !.loading = FALSE, !.hosts = Items, !.gridCols = c])

InitGrid ==
  /\ m \in {GridModel(n, c) : n \in 0..MaxItems, c \in 1..MaxCols}
  /\ loads = 0
  /\ pending = {}
  /\ logs = NoLogs
  /\ runs = 0
  /\ now = 0
  /\ disk = NoDir
  /\ phase = "idle"
  /\ cps = <<>>
  /\ ret = [op |-> "none"]
  /\ stored = NoneStored
  /\ tree = LoneGroup
  /\ result = NoResult
  /\ prevResult = NoResult
  /\ calls = 0

GridUp == m' = moveUp(m).m /\ UNCHANGED <<idleVars, now, pending, loads, logs, runs>>

GridDown == m' = moveDown(m).m /\ UNCHANGED <<idleVars, now, pending, loads, logs, runs>>

GridLeft == m' = moveLeft(m).m /\ UNCHANGED <<idleVars, now, pending, loads, logs, runs>>

GridRight == m' = moveRight(m).m /\ UNCHANGED <<idleVars, now, pending, loads, logs, runs>>

NextGrid ==
  \/ GridUp
  \/ GridDown
  \/ GridLeft
  \/ GridRight

SpecGrid == InitGrid /\ [][NextGrid]_vars

(***************************************************************************)
(* Properties of the Host/Group model.                                     *)
(***************************************************************************)

\* Depth-first pre-order by an explicit stack of groups still to visit: the
\* first group's hosts are emitted, its subgroups go on top of the stack.
RECURSIVE Walk(_, _)
Walk(stack, out) ==
  IF stack = <<>> THEN out
  ELSE Walk(Head(stack).subgroups \o Tail(stack), out \o Head(stack).hosts)

RECURSIVE HostCount(_)
HostCount(g) ==
  LET RECURSIVE Sum(_)
      Sum(i) == IF i > Len(g.subgroups) THEN 0 ELSE HostCount(g.subgroups[i]) + Sum(i + 1)
  IN Len(g.hosts) + Sum(1)

\* C10: AllHosts(g) is g's own hosts followed by AllHosts of each subgroup in
\* order (depth-first pre-order, nothing deduplicated); its length is the
\* number of direct hosts plus the lengths of AllHosts of the subgroups; a
\* tree without hosts gives the empty sequence; a repeated call gives the
\* same sequence.
C10_AllHostsPreOrder ==
  calls > 0 =>
    /\ result = Walk(<<tree>>, <<>>)
    /\ Len(result) = Len(tree.hosts) + SumLen(tree.subgroups, 1)
    /\ Len(result) = HostCount(tree)
    /\ (HostCount(tree) = 0 => result = <<>>)
    /\ (calls > 1 => prevResult = result)

C10_Witness ==
  /\ calls = MaxCalls
  /\ Len(tree.subgroups) = 2
  /\ tree.subgroups[1].subgroups # <<>>
  /\ tree.subgroups[2].hosts # <<>>
  /\ Len(tree.hosts) = 2
  /\ Len(result) > 4

(***************************************************************************)
(* Properties of the cache layer.  A step is recognised by the result it   *)
(* leaves in ret; the unprimed variables are the state the call started    *)
(* from.                                                                   *)
(***************************************************************************)
FetchStep == ret'.op = "GetGroups" /\ now' = now /\ vars' # vars

ClearStep == ret'.op = "ClearCache" /\ now' = now /\ vars' # vars

\* The cache file of the provider the step's fetch was made for.
FetchedFile == CacheFileOf(cps[ret'.p])

\* The persisted entry of provider p is loadable and fresh.
FreshEntry(p) ==
  LET data == disk.files[CacheFileOf(cps[p])]
  IN data.kind = "json" /\ now - data.doc.timestamp < TTL

\* The persisted entry of provider p is loadable and stale.
StaleEntry(p) ==
  LET data == disk.files[CacheFileOf(cps[p])]
  IN data.kind = "json" /\ now - data.doc.timestamp >= TTL

RECURSIVE ForestHostCount(_, _)
ForestHostCount(gs, i) ==
  IF i > Len(gs) THEN 0 ELSE HostCount(gs[i]) + ForestHostCount(gs, i + 1)

C4_NonEmptyAlwaysPersisted ==
  [][(FetchStep /\ ret'.invoked /\ ret'.asked.err = NoError)
       => IF ForestHostCount(ret'.asked.groups, 1) = 0
          THEN disk' = disk
          ELSE disk'.files[FetchedFile] = JsonFile(MarshalEntry(ret'.asked.groups, now))]_vars

\* C4 as amended: zero hosts never touch the directory; at least one host
\* persists a new entry stamped with the current time when the directory and
\* the file can be written, and otherwise the directory is left as it was;
\* either way the fetch succeeds with the forest of the source.
C4_NonEmptyPersistedWhenWritable ==
  [][(FetchStep /\ ret'.invoked /\ ret'.asked.err = NoError)
       => /\ ret'.err = NoError
          /\ ret'.groups = ret'.asked.groups
          /\ IF ForestHostCount(ret'.asked.groups, 1) = 0 \/ ~ret'.saveOk
             THEN disk' = disk
             ELSE /\ disk'.exists
                  /\ disk'.files[FetchedFile] = JsonFile(MarshalEntry(ret'.asked.groups, now))
                  /\ \A f \in FileNames \ {FetchedFile} : disk'.files[f] = disk.files[f]]_vars

C4_Witness ==
  /\ ret.op = "GetGroups"
  /\ ret.invoked
  /\ ret.groups = ForestNested
  /\ disk.files[CacheFileOf(cps[ret.p])] = JsonFile(MarshalEntry(ForestNested, now))
  /\ now > 0

\* C5: when the source fails, the cached fetch returns that error and leaves
\* the directory unchanged; the source is asked, and so its error surfaced,
\* whenever there is no loadable entry or the entry is stale and stale data
\* was not accepted for this instance.
C5_SourceErrorSurfaced ==
  [][FetchStep
       => /\ (ret'.invoked /\ ret'.asked.err # NoError)
               => (ret'.err = ret'.asked.err /\ ret'.groups = <<>> /\ disk' = disk)
          /\ (~ret'.invoked /\ StaleEntry(ret'.p)) => cps[ret'.p].useExpiredCache
          /\ ~ret'.invoked => disk.files[FetchedFile].kind = "json"]_vars

C5_Witness ==
  /\ ret.op = "GetGroups"
  /\ ret.err = FetchError
  /\ StaleEntry(ret.p)
  /\ ~cps[ret.p].useExpiredCache

\* C6: after the operator accepted the stale entry of a provider
\* instance, every later fetch from that instance in the session is served
\* from the cache without invoking the source.
C6_AcceptedCacheServed ==
  (phase = "run" /\ ret.op = "GetGroups" /\ cps[ret.p].useExpiredCache) => ~ret.invoked

\* C7: a corrupt or unreadable entry behaves like a missing one: the source is
\* invoked, its answer (forest or error) is returned, and the result and the
\* directory afterwards are those of a fetch that found no file.
C7_BadEntryIsMiss ==
  [][(FetchStep /\ disk.files[FetchedFile].kind \in {"corrupt", "unreadable"})
       => /\ ret'.invoked
          /\ ret'.err = ret'.asked.err
          /\ ret'.groups = ret'.asked.groups
          /\ ret'.err \in {NoError, FetchError}
          /\ LET miss == CachedGetGroups(cps[ret'.p],
                                         [disk EXCEPT !.files[FetchedFile] = Absent],
                                         now, ret'.asked, ret'.saveOk)
             IN /\ ret'.groups = miss.groups
                /\ ret'.err = miss.err
                /\ IF miss.fs.files[FetchedFile] = Absent THEN disk' = disk
                   ELSE disk' = miss.fs]_vars

C7_Witness ==
  /\ ret.op = "GetGroups"
  /\ ret.invoked
  /\ ret.err = NoError
  /\ ret.groups = ForestEmpty
  /\ disk.files[CacheFileOf(cps[ret.p])] = Corrupt

\* C8: provider instances whose (type, source locator, name) triples differ
\* have different cache keys; equal triples have equal keys.
Triple(cp) == <<cp.providerType, cp.filePath, cp.name>>

C8_FingerprintInjective ==
  \A p, q \in DOMAIN cps :
    (Triple(cps[p]) = Triple(cps[q])) <=> (getCacheKey(cps[p]) = getCacheKey(cps[q]))

\* C9: after a clear-all that reports success no cache entry remains, so a
\* fetch of any source then invokes the source; with no cache directory the
\* clear-all succeeds and changes nothing.
C9_ClearAllRemovesEveryEntry ==
  [][/\ ClearStep
          => /\ ret'.err = NoError => \A f \in CacheFiles : disk'.files[f] = Absent
             /\ ret'.err = NoError => disk'.files[ForeignFile] = disk.files[ForeignFile]
             /\ ~disk.exists => (ret'.err = NoError /\ disk' = disk)
     /\ (FetchStep /\ disk.files[FetchedFile] = Absent) => ret'.invoked]_vars

C9_Witness ==
  /\ ret.op = "ClearCache"
  /\ ret.err = NoError
  /\ Cardinality(ret.removed) = 2
  /\ disk.files[ForeignFile] = Other
  /\ now > 0

(***************************************************************************)
(* Properties of bulk command execution.                                   *)
(***************************************************************************)
\* The tasks of the submitted run whose completion has not been applied.
CurrentTasks == {task \in pending : task.run = runs}

\* The Bulk Result the controller holds for a host, if any.
ResultOf(mm, host) ==
  IF ResultKey(host) \in DOMAIN mm.bulkResults
  THEN <<mm.bulkResults[ResultKey(host)]>> ELSE <<>>

\* C1: after a bulk command was submitted with N >= 1 selected hosts and the
\* operator stays in the bulk view, once no completion of the run is
\* outstanding the result map holds exactly N results, one per selected
\* host, each done, and the progress is N/N.
C1_AllResultsDone ==
  (runs > 0 /\ m.viewMode = BulkCommandView /\ CurrentTasks = {})
    => /\ Len(m.selectedHosts) >= 1
       /\ Cardinality(DOMAIN m.bulkResults) = Len(m.selectedHosts)
       /\ \A i \in 1..Len(m.selectedHosts) :
            /\ ResultOf(m, m.selectedHosts[i]) # <<>>
            /\ ResultOf(m, m.selectedHosts[i])[1].Done
       /\ Progress(m) = <<Len(m.selectedHosts), Len(m.selectedHosts)>>

\* C2: applying the completion event of a host changes only that host's
\* Bulk Result: the result of every other selected host, the session error,
\* the view mode and the selection are unchanged.
C2_CompletionTouchesOnlyItsHost ==
  [][\A task \in pending :
       (pending' = pending \ {task} /\ ~m'.quitting)
         => /\ \A i \in 1..Len(m.selectedHosts) :
                 ~SameHost(m.selectedHosts[i], task.host)
                   => ResultOf(m', m.selectedHosts[i]) = ResultOf(m, m.selectedHosts[i])
            /\ m'.err = m.err
            /\ m'.viewMode = m.viewMode
            /\ m'.selectedHosts = m.selectedHosts]_vars

(***************************************************************************)
(* Properties of filtering.                                                *)
(***************************************************************************)
\* Two characters are the same letter, case ignored.
SameLetter(c, d) == c = d \/ {c, d} \in {{"a", "A"}, {"w", "W"}}

\* s contains t, case ignored.
ContainsFold(s, t) ==
  \E k \in 0..(Len(s) - Len(t)) : \A i \in 1..Len(t) : SameLetter(s[k + i], t[i])

\* The host's name or hostname contains the text, case ignored.
Matching(host, text) == ContainsFold(host.name, text) \/ ContainsFold(host.hostname, text)

\* C11: in every reachable state the filtered host list is the full host
\* list restricted, in the same order, to the hosts whose name or hostname
\* contains the filter text, case ignored; with an empty filter text it is
\* the full host list.
C11_FilteredHostsAreMatchingHosts ==
  /\ m.filteredHosts = SelectSeq(m.hosts, LAMBDA h : Matching(h, m.filterText))
  /\ m.filterText = NoText => m.filteredHosts = m.hosts

C11_Witness ==
  /\ m.filterText = <<"W">>
  /\ m.hosts = <<HostA, HostB, HostC, HostD>>
  /\ m.filteredHosts = <<HostC>>

\* The group's name contains the text, or a host of AllHosts(group) matches.
GroupMatching(g, text) ==
  \/ ContainsFold(g.name, text)
  \/ \E i \in 1..Len(Walk(<<g>>, <<>>)) : Matching(Walk(<<g>>, <<>>)[i], text)

\* C12: with a non-empty filter text the filtered group list is the root
\* groups, in their order, whose name contains the filter text or one of
\* whose AllHosts matches it; a matching host of a root group, dropped or
\* not, is in the filtered host list.
C12_FilteredGroupsAreMatchingGroups ==
  m.filterText # NoText
    => /\ m.filteredGroups = SelectSeq(m.groups, LAMBDA g : GroupMatching(g, m.filterText))
       /\ \A j \in 1..Len(m.groups) : \A i \in 1..Len(Walk(<<m.groups[j]>>, <<>>)) :
            Matching(Walk(<<m.groups[j]>>, <<>>)[i], m.filterText)
              => \E k \in 1..Len(m.filteredHosts) :
                    m.filteredHosts[k] = Walk(<<m.groups[j]>>, <<>>)[i]

C12_Witness ==
  /\ m.filterText = <<"c">>
  /\ m.groups = NavForest
  /\ m.filteredGroups = <<NavForest[1]>>

(***************************************************************************)
(* Properties of the grid cursor.                                          *)
(***************************************************************************)
\* C13: for a list of at least one item in a grid of at least one column,
\* after any sequence of moveUp, moveDown, moveLeft and moveRight the row
\* and the column are not negative and the linear index row*columns+column
\* is below the item count; moveLeft in column 0 and moveUp in row 0 leave
\* the cursor where it is, and moveRight and moveDown never take the index
\* to or past the item count.
C13_CursorInRange ==
  (getCurrentItemCount(m) >= 1 /\ m.gridCols >= 1)
    => /\ m.cursorRow >= 0 /\ m.cursorCol >= 0
       /\ m.cursorRow * m.gridCols + m.cursorCol < getCurrentItemCount(m)
       /\ getCurrentIndex(m) = m.cursorRow * m.gridCols + m.cursorCol
       /\ m.cursorCol = 0 => moveLeft(m).m = m
       /\ m.cursorRow = 0 => moveUp(m).m = m
       /\ getCurrentIndex(moveRight(m).m) < getCurrentItemCount(m)
       /\ getCurrentIndex(moveDown(m).m) < getCurrentItemCount(m)

\* The cursor is on the last item, in a last row that is not full.
C13_Witness ==
  /\ getCurrentItemCount(m) = 5
  /\ m.gridCols = 3
  /\ m.cursorRow = 1 /\ m.cursorCol = 1
  /\ moveRight(m).m = m
  /\ moveDown(m).m = m

\* C14: every step that changes the filter text (deleting its last
\* character and clearing it with Escape included), that changes the view
\* (the switch into the bulk view included) or that enters or leaves a
\* group leaves the cursor at (0,0).
C14_StructuralChangeResetsCursor ==
  [][(\/ m'.filterText # m.filterText
      \/ m'.viewMode # m.viewMode
      \/ m'.currentGroup # m.currentGroup)
       => (m'.cursorRow = 0 /\ m'.cursorCol = 0)]_vars

\* The grid of the current items is on the screen.
GridShown(mm) ==
  /\ ~mm.quitting /\ mm.err = NoError /\ ~mm.loading
  /\ mm.viewMode \in {AllHostsView, GroupView, HostView}
  /\ getCurrentItemCount(mm) >= 1

\* C15: whenever the grid is shown, the column count of the cursor
\* arithmetic is the column count the grid is laid out in for the current
\* terminal width, and the one cell drawn as highlighted is the item the
\* linear index designates.
C15_CursorColumnsAreLayoutColumns ==
  GridShown(m)
    => /\ getGridDimensions(m)[2] = adjustedGridCols(m)
       /\ renderGridSelected(m) = {getCurrentIndex(m)}

(***************************************************************************)
(* Properties of navigation.  Press(mm, key) is what Update answers to the *)
(* key in the state mm; the properties state it for every reachable state. *)
(***************************************************************************)
\* The session shows its data and no entry sub-mode is active.
NormalMode(mm) ==
  /\ ~mm.quitting /\ mm.err = NoError
  /\ ~mm.filterMode /\ ~mm.usernameMode /\ ~mm.bulkCommandMode

Press(mm, key) == UpdateKeyMsg(mm, logs, key, DefaultIo)

AtOrigin(mm) == mm.cursorRow = 0 /\ mm.cursorCol = 0

\* The linear index of the cursor.
CursorIndex(mm) == mm.cursorRow * mm.gridCols + mm.cursorCol

\* The filtered hosts of the view: of all hosts in AllHosts, of the direct
\* hosts of the group entered in InGroup.
ActiveList(mm) ==
  IF mm.viewMode = AllHostsView THEN mm.filteredHosts
  ELSE IF mm.currentGroup = NoGroup THEN <<>>
  ELSE SelectSeq(mm.currentGroup[1].hosts, LAMBDA h : Matching(h, mm.filterText))

\* C16: Tab pressed in AllHosts leads to ByGroup and Tab pressed in ByGroup
\* leads to AllHosts; afterwards the breadcrumb is the single label of the
\* destination view, no group is entered and the cursor is at (0,0).
C16_TabTogglesView ==
  (NormalMode(m) /\ m.viewMode \in {AllHostsView, GroupView})
    => \E r \in {Press(m, "tab")} :
          /\ m.viewMode = AllHostsView
               => (r.m.viewMode = GroupView /\ r.m.breadcrumb = << <<"All Groups">> >>)
          /\ m.viewMode = GroupView
               => (r.m.viewMode = AllHostsView /\ r.m.breadcrumb = << <<"All Hosts">> >>)
          /\ r.m.currentGroup = NoGroup
          /\ AtOrigin(r.m)
          /\ ~r.m.quitting

\* ByGroup was reached with Tab, the cursor has moved away from (0,0) since,
\* and Tab leads back to AllHosts.
C16_Witness ==
  /\ NormalMode(m)
  /\ m.viewMode = GroupView
  /\ m.breadcrumb = << <<"All Groups">> >>
  /\ Len(m.filteredGroups) = 2
  /\ m.cursorCol = 1
  /\ Press(m, "tab").m.viewMode = AllHostsView

\* C17: in ByGroup, selecting while the cursor designates a group of the
\* filtered group list enters InGroup for exactly that group, appends its
\* name to the breadcrumb and puts the cursor at (0,0); with an empty
\* filtered group list selecting changes nothing.
C17_EnterGroupUnderCursor ==
  (NormalMode(m) /\ m.viewMode = GroupView)
    => \A key \in {"enter", " "} : \E r \in {Press(m, key)} :
          /\ CursorIndex(m) < Len(m.filteredGroups)
               => /\ r.m.viewMode = HostView
                  /\ r.m.currentGroup = <<m.filteredGroups[CursorIndex(m) + 1]>>
                  /\ r.m.breadcrumb =
                       Append(m.breadcrumb, m.filteredGroups[CursorIndex(m) + 1].name)
                  /\ AtOrigin(r.m)
                  /\ ~r.m.quitting
          /\ m.filteredGroups = <<>> => (r.m = m /\ r.cmd = NoCmd)

\* The second group of the list was entered.
C17_Witness ==
  /\ NormalMode(m)
  /\ m.viewMode = HostView
  /\ m.currentGroup = <<NavForest[2]>>
  /\ m.breadcrumb = << <<"All Groups">>, <<"W">> >>
  /\ AtOrigin(m)

\* Selecting in ByGroup with a filter that no group matches.
C17_WitnessEmpty ==
  /\ NormalMode(m)
  /\ m.viewMode = GroupView
  /\ m.groups = NavForest
  /\ m.filteredGroups = <<>>

\* C18: in InGroup, left in column 0 and backspace remove the last element
\* of the breadcrumb and lead to ByGroup with no group entered and the
\* cursor at (0,0); left in a column above 0 only moves the cursor one
\* column to the left and stays in InGroup.
C18_BackToGroups ==
  (NormalMode(m) /\ m.viewMode = HostView)
    => /\ \A key \in (IF m.cursorCol = 0 THEN {"left", "h", "backspace"}
                       ELSE {"backspace"}) :
            \E r \in {Press(m, key)} :
               /\ r.m.viewMode = GroupView
               /\ r.m.breadcrumb = SubSeq(m.breadcrumb, 1, Len(m.breadcrumb) - 1)
               /\ Len(m.breadcrumb) >= 2
               /\ r.m.currentGroup = NoGroup
               /\ AtOrigin(r.m)
               /\ ~r.m.quitting
       /\ m.cursorCol > 0
            => \A key \in {"left", "h"} :
                  Press(m, key).m = [m EXCEPT !.cursorCol = m.cursorCol - 1]

\* In the group entered the cursor is in column 1, where left moves it and
\* backspace leaves the group.
C18_Witness ==
  /\ NormalMode(m)
  /\ m.viewMode = HostView
  /\ m.currentGroup = <<NavForest[1]>>
  /\ m.cursorCol = 1
  /\ Press(m, "left").m.viewMode = HostView
  /\ Press(m, "backspace").m.viewMode = GroupView

\* C19: in AllHosts and InGroup, selecting while the cursor designates a host
\* of the active filtered list records exactly that host as the choice and
\* ends the session; committing a non-empty username entry records the
\* typed text as the username override together with the host; with an
\* empty active list nothing is chosen and the session goes on.
C19_SelectHostUnderCursor ==
  (/\ ~m.quitting /\ m.err = NoError /\ ~m.filterMode /\ ~m.bulkCommandMode
   /\ m.viewMode \in {AllHostsView, HostView})
    => /\ (~m.usernameMode /\ ~m.bulkSelectionMode)
            => \A key \in {"enter", " "} : \E r \in {Press(m, key)} :
                  /\ CursorIndex(m) < Len(ActiveList(m))
                       => /\ r.m.choice = <<ActiveList(m)[CursorIndex(m) + 1]>>
                          /\ r.m.quitting
                          /\ r.cmd = Quit
                  /\ ActiveList(m) = <<>>
                       => (r.m.choice = NoChoice /\ ~r.m.quitting /\ r.cmd = NoCmd)
       /\ (m.usernameMode /\ m.usernameText # NoText)
            => \E r \in {Press(m, "enter")} :
                  /\ CursorIndex(m) < Len(ActiveList(m))
                       => /\ r.m.choice = <<ActiveList(m)[CursorIndex(m) + 1]>>
                          /\ r.m.customUsername = m.usernameText
                          /\ r.m.quitting
                          /\ r.cmd = Quit
                  /\ ActiveList(m) = <<>>
                       => (r.m.choice = NoChoice /\ ~r.m.quitting /\ r.cmd = NoCmd)

\* The second host of the group entered was chosen with a typed username.
C19_Witness ==
  /\ m.quitting
  /\ m.viewMode = HostView
  /\ m.choice = <<HostB>>
  /\ m.customUsername = <<"W">>

\* C20: every step into the bulk view starts in AllHosts or InGroup, never
\* in ByGroup, and is the submission of a non-empty bulk command with at
\* least one host selected; it sets the breadcrumb to the single label
\* that describes the command and clears the bulk-selection mode.
C20_BulkEnteredOnlyBySubmission ==
  [][(m'.viewMode = BulkCommandView /\ m.viewMode # BulkCommandView)
       => /\ m.viewMode \in {AllHostsView, HostView}
          /\ m.bulkCommandMode
          /\ m.bulkCommandText # NoText
          /\ Len(m.selectedHosts) >= 1
          /\ m'.breadcrumb = << <<"Bulk Command: ">> \o m.bulkCommandText >>
          /\ ~m'.bulkSelectionMode]_vars

(***************************************************************************)
(* Properties of the bulk view, the entry sub-modes and the error state.   *)
(***************************************************************************)
\* The keys of the key switch of Update, two more single characters, and a
\* key Update has no case for.
AnyKey ==
  {"ctrl+c", "q", "up", "k", "down", "j", "left", "h", "right", "l", "enter", " ",
   "backspace", "tab", "/", "u", "s", "c", "esc", "x", "W", "f1"}

\* The Model after the bulk view was left by switchView.
BulkDiscarded(mm) ==
  /\ mm.viewMode = AllHostsView
  /\ mm.bulkResults = NoResults
  /\ mm.selectedHosts = <<>>
  /\ ~mm.bulkSelectionMode
  /\ mm.bulkOutputFile = NoFile

\* C21: in the bulk view no key but Tab pressed in normal mode changes the
\* view, and no step of the session other than that one leaves the bulk
\* view; Tab leads to AllHosts with an empty result map, an empty
\* selection, bulk-selection mode off and no log file path.
C21_BulkLeftOnlyBySwitchView ==
  [][(m.viewMode = BulkCommandView /\ ~m.quitting)
       => /\ \A key \in AnyKey : \E r \in {Press(m, key)} :
               IF key = "tab" /\ NormalMode(m)
               THEN BulkDiscarded(r.m) /\ ~r.m.quitting
               ELSE r.m.viewMode = BulkCommandView
          /\ m'.viewMode # BulkCommandView
               => (NormalMode(m) /\ m' = Press(m, "tab").m /\ BulkDiscarded(m'))]_vars

\* A bulk command was submitted and the bulk view was left while a task was
\* still running.
C21_Witness ==
  /\ runs > 0
  /\ pending # {}
  /\ BulkDiscarded(m)
  /\ ~m.quitting

\* The entry sub-mode the keys go to: Update asks for the filter entry
\* first, then the username entry, then the bulk command entry.
SubMode(mm) ==
  IF mm.filterMode THEN "filter"
  ELSE IF mm.usernameMode THEN "username"
  ELSE IF mm.bulkCommandMode THEN "bulkCommand"
  ELSE "none"

\* The buffer of that sub-mode.
Buffer(mm) ==
  CASE SubMode(mm) = "filter" -> mm.filterText
    [] SubMode(mm) = "username" -> mm.usernameText
    [] SubMode(mm) = "bulkCommand" -> mm.bulkCommandText
    [] OTHER -> NoText

\* In the state mm every single-character key is appended to the buffer of
\* the sub-mode, and no key but Enter, which commits, quits, changes the
\* view or the selection, or moves the cursor other than back to (0,0) when
\* the filter is derived again.
KeysAreText(mm) ==
  /\ \A key \in KeyChars : \E r \in {Press(mm, key)} :
        /\ SubMode(r.m) = SubMode(mm)
        /\ Buffer(r.m) = Append(Buffer(mm), key)
  /\ \A key \in AnyKey \ {"enter"} : \E r \in {Press(mm, key)} :
        /\ ~r.m.quitting /\ r.cmd = NoCmd
        /\ r.m.viewMode = mm.viewMode
        /\ r.m.currentGroup = mm.currentGroup
        /\ r.m.selectedHosts = mm.selectedHosts
        /\ r.m.bulkSelectionMode = mm.bulkSelectionMode
        /\ \/ r.m.cursorRow = mm.cursorRow /\ r.m.cursorCol = mm.cursorCol
           \/ SubMode(mm) = "filter" /\ AtOrigin(r.m)

\* C22 as stated: whenever an entry sub-mode is active, every
\* single-character key, h, j, k, l and q included, is appended to the
\* buffer of the sub-mode, and no key navigates, switches the view, toggles
\* the selection or quits.
C22_EntryKeysAreText ==
  (~m.quitting /\ SubMode(m) # "none") => KeysAreText(m)

\* C22, amended: the same whenever an entry sub-mode is active and no
\* session error is shown; while an error is shown q and ctrl+c quit and
\* every other key starts a new fetch, and the buffer stays as it is.
C22_EntryKeysAreTextUnlessError ==
  (~m.quitting /\ SubMode(m) # "none")
    => IF m.err = NoError THEN KeysAreText(m)
       ELSE \A key \in AnyKey : \E r \in {Press(m, key)} :
               /\ Buffer(r.m) = Buffer(m)
               /\ SubMode(r.m) = SubMode(m)
               /\ IF key \in {"ctrl+c", "q"} THEN r.m.quitting /\ r.cmd = Quit
                  ELSE ~r.m.quitting /\ r.cmd = LoadData /\ r.m.err = NoError

\* The letter s was typed into the bulk command entry with a host selected.
C22_Witness ==
  /\ ~m.quitting /\ m.err = NoError
  /\ SubMode(m) = "bulkCommand"
  /\ m.bulkCommandText = <<"s">>
  /\ Len(m.selectedHosts) = 1

\* C23: with no error shown, Escape in an entry sub-mode leaves the
\* sub-mode with its buffer empty and without effect of the text (no filter
\* applied, no connect, no dispatch); Enter leaves the sub-mode and commits
\* the buffer: the filter is derived from it, a non-empty username becomes
\* the override, a non-empty bulk command is submitted.
C23_EscapeDiscardsBuffer ==
  (~m.quitting /\ m.err = NoError /\ SubMode(m) # "none")
    => \E esc \in {Press(m, "esc")} : \E enter \in {Press(m, "enter")} :
          /\ Buffer(esc.m) = NoText \/ SubMode(esc.m) # SubMode(m)
          /\ ~esc.m.quitting /\ esc.cmd = NoCmd /\ esc.m.viewMode = m.viewMode
          /\ SubMode(m) = "filter"
               => /\ ~esc.m.filterMode /\ esc.m.filterText = NoText
                  /\ esc.m.filteredHosts = m.hosts /\ esc.m.filteredGroups = m.groups
                  /\ ~enter.m.filterMode /\ enter.m.filterText = m.filterText
                  /\ enter.m.filteredHosts =
                       SelectSeq(m.hosts, LAMBDA h : Matching(h, m.filterText))
          /\ SubMode(m) = "username"
               => /\ ~esc.m.usernameMode /\ esc.m.usernameText = NoText
                  /\ esc.m.customUsername = m.customUsername
                  /\ ~enter.m.usernameMode
                  /\ m.usernameText # NoText => enter.m.customUsername = m.usernameText
          /\ SubMode(m) = "bulkCommand"
               => /\ ~esc.m.bulkCommandMode /\ esc.m.bulkCommandText = NoText
                  /\ esc.m.bulkResults = m.bulkResults
                  /\ ~enter.m.bulkCommandMode
                  /\ (m.bulkCommandText # NoText /\ Len(m.selectedHosts) >= 1)
                       => enter.m.viewMode = BulkCommandView

(***************************************************************************)
(* Properties of the bulk selection.                                       *)
(***************************************************************************)
\* The host is a member of the selection, by name and hostname.
Selected(mm, host) == \E i \in 1..Len(mm.selectedHosts) : SameHost(mm.selectedHosts[i], host)

\* C24: the selection never holds two hosts with the same name and
\* hostname; in bulk-selection mode in AllHosts and InGroup, selecting with
\* the cursor on a host removes that host from the selection when it is a
\* member, the others keeping their order, and appends it at the end when
\* it is not; in ByGroup no key changes the selection or switches the
\* bulk-selection mode on.
C24_ToggleSelection ==
  /\ \A i, j \in 1..Len(m.selectedHosts) :
        SameHost(m.selectedHosts[i], m.selectedHosts[j]) => i = j
  /\ (/\ NormalMode(m) /\ m.bulkSelectionMode
      /\ m.viewMode \in {AllHostsView, HostView}
      /\ CursorIndex(m) < Len(ActiveList(m)))
       => \A key \in {"enter", " "} : \E r \in {Press(m, key)} :
             \E host \in {ActiveList(m)[CursorIndex(m) + 1]} :
                /\ r.m.selectedHosts =
                     IF Selected(m, host)
                     THEN SelectSeq(m.selectedHosts, LAMBDA h : ~SameHost(h, host))
                     ELSE Append(m.selectedHosts, host)
                /\ r.m.bulkSelectionMode
                /\ r.m.viewMode = m.viewMode
                /\ ~r.m.quitting
  /\ (m.viewMode = GroupView /\ ~m.quitting)
       => \A key \in AnyKey : \E r \in {Press(m, key)} :
             /\ r.m.selectedHosts = m.selectedHosts
             /\ r.m.viewMode = GroupView => r.m.bulkSelectionMode = m.bulkSelectionMode

\* Two hosts were selected, the second host of the list first; the cursor
\* is on that host, and selecting removes it.
C24_Witness ==
  /\ NormalMode(m) /\ m.bulkSelectionMode
  /\ m.viewMode = AllHostsView
  /\ m.selectedHosts = <<HostB, HostA>>
  /\ CursorIndex(m) = 1
  /\ Press(m, "enter").m.selectedHosts = <<HostA>>

(***************************************************************************)
(* Properties of the error state.                                          *)
(***************************************************************************)
\* C25: while a session error is shown, q and ctrl+c end the session and
\* start no fetch, and every other key, in whatever sub-mode, clears the
\* error, sets loading and starts a fetch; a fetch is started by no step
\* other than such a key press; a fetch that fails stores its error as the
\* session error and ends loading.
C25_ErrorKeys ==
  [][/\ (m.err # NoError /\ ~m.quitting)
        => \A key \in AnyKey : \E r \in {Press(m, key)} :
              IF key \in {"ctrl+c", "q"}
              THEN r.m.quitting /\ r.cmd = Quit
              ELSE /\ r.m.err = NoError /\ r.m.loading /\ r.cmd = LoadData
                   /\ ~r.m.quitting
                   /\ SubMode(r.m) = SubMode(m)
     /\ loads' > loads
          => /\ m.err # NoError /\ m'.err = NoError /\ m'.loading
             /\ loads' = loads + 1
             /\ pending' = pending
     /\ (loads > 0 /\ ~m.quitting)
          => \A out \in {o \in LoadOutcomes : o.err # NoError} :
                \E mm \in {UpdateDataLoaded(m, loadData(<<out>>))} :
                   mm.err # NoError /\ ~mm.loading /\ ~mm.quitting]_vars

\* The fetch started by a key pressed on the error of a bulk submission
\* whose log could not be set up, the hosts of the first fetch still loaded.
C25_Witness ==
  /\ m.loading /\ loads = 1 /\ m.err = NoError
  /\ runs > 0 /\ Len(m.hosts) > 0
  /\ m.viewMode = BulkCommandView
  /\ ~m.quitting

(***************************************************************************)
(* Properties of the session log.                                          *)
(***************************************************************************)
IsBlockFor(piece, host) ==
  piece.kind = "block" /\ piece.name = host.name /\ piece.hostname = host.hostname

\* after is before with one block for the host appended to the file f and
\* every other file as it was.
BlockAppended(before, after, f, host) ==
  /\ before[f].exists /\ after[f].exists
  /\ Len(after[f].content) = Len(before[f].content) + 1
  /\ SubSeq(after[f].content, 1, Len(before[f].content)) = before[f].content
  /\ IsBlockFor(after[f].content[Len(after[f].content)], host)
  /\ \A g \in LogPaths \ {f} : after[g] = before[g]

\* The step dispatches the tasks of a submitted command: the log named by
\* the new log path holds the header of the command and nothing else.
HeaderBeforeDispatch ==
  pending' \ pending # {}
    => /\ m'.bulkOutputFile \in LogPaths
       /\ logs'[m'.bulkOutputFile] =
            [exists |-> TRUE,
             content |-> <<[kind |-> "header", timestamp |-> now',
                            command |-> m.bulkCommandText,
                            hosts |-> Len(m.selectedHosts)]>>]
       /\ {task.host : task \in pending' \ pending} =
            {m.selectedHosts[i] : i \in 1..Len(m.selectedHosts)}

\* A log file that exists is empty or a header followed by blocks.
WellFormedLogs(fs) ==
  \A f \in LogPaths :
     (fs[f].exists /\ fs[f].content # <<>>)
       => /\ fs[f].content[1].kind = "header"
          /\ \A i \in 2..Len(fs[f].content) : fs[f].content[i].kind = "block"

C27_LogFailureNeverStopsExecution ==
  [][/\ runs' = runs + 1
          => /\ {task.host : task \in pending' \ pending} =
                  {m.selectedHosts[i] : i \in 1..Len(m.selectedHosts)}
             /\ \A i \in 1..Len(m.selectedHosts) :
                  ResultOf(m', m.selectedHosts[i]) # <<>>
     /\ \A task \in pending :
          (pending' = pending \ {task} /\ ~m'.quitting /\ ResultOf(m, task.host) # <<>>)
            => /\ ResultOf(m', task.host) # <<>>
               /\ ResultOf(m', task.host)[1].Done]_vars

(***************************************************************************)
(* Properties of the progress line.                                        *)
(***************************************************************************)
\* The progress of the state mm is the number of done results over the
\* number of selected hosts, and not above it.
ProgressOfSelection(mm) ==
  mm.viewMode = BulkCommandView
    => /\ Progress(mm)[1] = Cardinality({k \in DOMAIN mm.bulkResults : mm.bulkResults[k].Done})
       /\ Progress(mm)[2] = Len(mm.selectedHosts)
       /\ Progress(mm)[1] <= Progress(mm)[2]

\* C28: in the bulk view the progress is the number of results that are
\* done over the number of selected hosts; the numerator never exceeds the
\* denominator and never decreases while the run is shown.
C28_ProgressOfSelection ==
  [][/\ ProgressOfSelection(m)
     /\ ProgressOfSelection(m')
     /\ (m.viewMode = BulkCommandView /\ m'.viewMode = BulkCommandView)
          => Progress(m')[1] >= Progress(m)[1]]_vars

(***************************************************************************)
(* Properties of startup.                                                  *)
(***************************************************************************)
\* The configuration has a setup error: no provider, a provider of an
\* unknown type, or a provider without its "file" parameter.
SetupError(cfg) ==
  \/ cfg.providers = <<>>
  \/ \E i \in 1..Len(cfg.providers) :
        \/ cfg.providers[i].type \notin {<<"json">>, <<"ansible">>}
        \/ cfg.providers[i].file = <<>>

\* C29: when the configuration has a setup error, run returns an error, the
\* process exits with a non-zero status and the session is never opened.
C29_SetupErrorsAreFatal ==
  (ret.op = "run" /\ SetupError(ret.cfg))
    => /\ ret.err # NoError
       /\ ret.exit # 0
       /\ phase = "exit"
       /\ loads = 0

(***************************************************************************)
(* Properties of the breadcrumb.                                           *)
(***************************************************************************)
\* C30: the breadcrumb is never empty: it holds at least one label in every
\* reachable state, and no key pressed there, no delivery of data and no
\* completion of a command leaves it empty.
C30_BreadcrumbNeverEmpty ==
  /\ Len(m.breadcrumb) >= 1
  /\ \A key \in AnyKey : Len(Press(m, key).m.breadcrumb) >= 1
  /\ \A out \in LoadOutcomes :
       Len(UpdateDataLoaded(m, loadData(<<out>>)).breadcrumb) >= 1

\* A group was entered after a bulk run and while a fetch was in flight: the
\* breadcrumb holds two labels, and going back leaves the one of ByGroup.
C30_Witness ==
  /\ m.viewMode = HostView
  /\ Len(m.breadcrumb) = 2
  /\ runs > 0
  /\ loads > 0
  /\ NormalMode(m)
  /\ Press(m, "backspace").m.breadcrumb = << <<"All Groups">> >>

(***************************************************************************)
(* Properties of a data load over several providers.                       *)
(***************************************************************************)
\* The forests of the first n answers, one after the other.
RECURSIVE ForestsInOrder(_, _)
ForestsInOrder(outs, n) ==
  IF n = 0 THEN <<>> ELSE ForestsInOrder(outs, n - 1) \o outs[n].groups

\* AllHosts of the first n root groups, one after the other.
RECURSIVE HostsOfRoots(_, _)
HostsOfRoots(groups, n) ==
  IF n = 0 THEN <<>> ELSE HostsOfRoots(groups, n - 1) \o AllHosts(groups[n])

\* C31: a load over the providers of the session yields the forests of the
\* providers concatenated in provider order and, as host list, AllHosts of
\* every root group in that order; when the fetch of any provider fails it
\* yields the error alone, and the Model then holds no group and no host.
C31_LoadConcatenatesProviders ==
  phase = "session"
    => \A outs \in [1..Len(cps) -> SourceOutcomes] :
         \E msg \in {loadData(outs)} :
           \E after \in {UpdateDataLoaded(m, msg)} :
             IF \E i \in 1..Len(outs) : outs[i].err # NoError
             THEN /\ msg.err # NoError /\ msg.groups = <<>> /\ msg.hosts = <<>>
                  /\ after.err # NoError /\ after.groups = <<>> /\ after.hosts = <<>>
                  /\ after.filteredGroups = <<>> /\ after.filteredHosts = <<>>
             ELSE /\ msg.err = NoError
                  /\ msg.groups = ForestsInOrder(outs, Len(outs))
                  /\ msg.hosts = HostsOfRoots(msg.groups, Len(msg.groups))
                  /\ after.groups = msg.groups /\ after.hosts = msg.hosts
                  /\ after.err = m.err

\* Two providers have answered, the first with the flat forest and the
\* second with the nested one: the session holds three root groups and the
\* hosts B, C, A.
C31_Witness ==
  /\ phase = "session"
  /\ Len(cps) = 2
  /\ ~m.loading
  /\ m.err = NoError
  /\ m.groups = ForestFlat \o ForestNested
  /\ m.hosts = <<HostB, HostC, HostA>>

(***************************************************************************)
(* Properties of completion events that arrive late.                       *)
(***************************************************************************)
\* What Update makes of the completion event of a task.
Completion(task, out, appendOk) ==
  UpdateBulkCommandFinished(m, logs,
    [host |-> task.host, output |-> out.output, err |-> out.err], appendOk)

\* C32: outside the bulk view the completion event of a task in flight
\* changes nothing: the Model stays as it is, so no Bulk Result is created
\* or updated, no log file is written, and no warning is printed.
C32_LateCompletionChangesNothing ==
  m.viewMode # BulkCommandView
    => \A task \in pending, out \in ExecOutcomes, appendOk \in BOOLEAN :
          Completion(task, out, appendOk) = [m |-> m, logs |-> logs, warned |-> FALSE]

\* The bulk view was left with Tab while the one task of the run was in
\* flight: the log of the run holds its header alone and the completion
\* event finds no Bulk Result.
C32_Witness ==
  /\ m.viewMode = AllHostsView /\ ~m.quitting
  /\ runs = 1
  /\ m.bulkResults = NoResults
  /\ \E task \in pending :
       /\ pending = {task}
       /\ \E f \in LogPaths : logs[f].exists /\ Len(logs[f].content) = 1
       /\ Completion(task, [output |-> <<"o">>, err |-> NoError], TRUE).logs = logs

\* C33: while the task of the latest run for a host is in flight, the
\* completion event of a task that an earlier run dispatched for the same
\* host changes nothing: it marks no Bulk Result of the latest run as done,
\* stores no output in it and appends no block to the log of the latest run.
C33_ResultSetOnlyByOwnRun ==
  \A old \in pending, new \in pending :
     (old.run < new.run /\ new.run = runs /\ SameHost(old.host, new.host))
       => \A out \in ExecOutcomes, appendOk \in BOOLEAN :
             Completion(old, out, appendOk) = [m |-> m, logs |-> logs, warned |-> FALSE]

(***************************************************************************)
(* Properties of the data fetches in flight.                               *)
(***************************************************************************)
\* C34: a fetch is started only by a key pressed while an error is shown,
\* and only when no earlier fetch is still in flight, so that at most one
\* fetch is in flight afterwards.
C34_OneFetchInFlight ==
  [][loads' > loads => (m.err # NoError /\ loads = 0 /\ loads' = 1)]_vars

(***************************************************************************)
(* Properties of the entry sub-modes taken together.                       *)
(***************************************************************************)
\* The entry sub-modes whose flag is set.
ActiveSubModes(mm) ==
  {x \in {"filter", "username", "bulkCommand"} :
     \/ x = "filter" /\ mm.filterMode
     \/ x = "username" /\ mm.usernameMode
     \/ x = "bulkCommand" /\ mm.bulkCommandMode}

\* C35: at most one of the filter entry, the username entry and the bulk
\* command entry is active, in every reachable state and after any key
\* pressed there.
C35_OneSubMode ==
  /\ Cardinality(ActiveSubModes(m)) <= 1
  /\ \A key \in AnyKey : Cardinality(ActiveSubModes(Press(m, key).m)) <= 1

\* The username entry is open and holds a character; "/" and "c", which
\* open the other two entries in normal mode, are taken as text here.
C35_Witness ==
  /\ ActiveSubModes(m) = {"username"}
  /\ m.usernameText = <<"/">>
  /\ m.bulkSelectionMode /\ Len(m.selectedHosts) > 0
  /\ ActiveSubModes(Press(m, "c").m) = {"username"}

(***************************************************************************)
(* Properties of view mode, entered group and breadcrumb together.         *)
(***************************************************************************)
\* View mode, entered group and breadcrumb of a Model agree.
ViewConsistent(mm) ==
  /\ Len(mm.breadcrumb) <= 2
  /\ mm.viewMode = HostView
       => /\ mm.currentGroup # NoGroup
          /\ mm.breadcrumb = << <<"All Groups">>, mm.currentGroup[1].name >>
  /\ mm.viewMode = AllHostsView
       => mm.currentGroup = NoGroup /\ mm.breadcrumb = << <<"All Hosts">> >>
  /\ mm.viewMode = GroupView
       => mm.currentGroup = NoGroup /\ mm.breadcrumb = << <<"All Groups">> >>

\* C36: in InGroup a group is entered and the breadcrumb is "All Groups"
\* followed by the name of that group; in AllHosts and ByGroup no group is
\* entered and the breadcrumb is the one label of the view; the breadcrumb
\* never holds more than two labels.  This holds in every reachable state
\* and after any key pressed and any data delivered there.
C36_ViewGroupBreadcrumbConsistent ==
  /\ ViewConsistent(m)
  /\ \A key \in AnyKey : ViewConsistent(Press(m, key).m)
  /\ \A out \in NavLoadOutcomes : ViewConsistent(UpdateDataLoaded(m, loadData(<<out>>)))

\* The second root group was entered and its hosts filtered; Tab leads to
\* AllHosts with no group entered.
C36_Witness ==
  /\ m.viewMode = HostView
  /\ m.currentGroup = <<NavForest[2]>>
  /\ m.breadcrumb = << <<"All Groups">>, <<"W">> >>
  /\ m.filterText # NoText
  /\ NormalMode(m)
  /\ Press(m, "tab").m.currentGroup = NoGroup

(***************************************************************************)
(* Properties of the reach of the cursor.                                  *)
(***************************************************************************)
\* The Models that sequences of move operations lead to from those of S.
RECURSIVE MovesFrom(_)
MovesFrom(S) ==
  LET T == S \cup {moveUp(s).m : s \in S} \cup {moveDown(s).m : s \in S}
             \cup {moveLeft(s).m : s \in S} \cup {moveRight(s).m : s \in S}
  IN IF T = S THEN S ELSE MovesFrom(T)

\* C37: with the cursor at (0,0) on a list that is not empty, for every
\* index below the item count there is a sequence of move operations after
\* which the linear index of the cursor is that index.
C37_EveryItemReachable ==
  (AtOrigin(m) /\ getCurrentItemCount(m) >= 1)
    => \A i \in 0..(getCurrentItemCount(m) - 1) :
          \E s \in MovesFrom({m}) : getCurrentIndex(s) = i

\* Seven items in four columns: the cursor was brought to the last item, at
\* the end of a last row that is not full, and it can be brought back to
\* every item from there.
C37_Witness ==
  /\ getCurrentItemCount(m) = 7
  /\ m.gridCols = 4
  /\ m.cursorRow = 1 /\ m.cursorCol = 2
  /\ {getCurrentIndex(s) : s \in MovesFrom({m})} = 0..6

(***************************************************************************)
(* Properties of the username override reported with the chosen host.      *)
(***************************************************************************)
\* C38: the step that chooses the host ends the session; when it commits a
\* username entry the override reported with the host is the text of that
\* entry, which is not empty, and when it is a plain select the override is
\* empty, whatever an earlier username commit that chose no host has left.
C38_UsernameOverrideNeverLeaks ==
  [][(m.choice = NoChoice /\ m'.choice # NoChoice)
       => /\ m'.quitting
          /\ IF m.usernameMode
             THEN m.usernameText # NoText /\ m'.customUsername = m.usernameText
             ELSE m'.customUsername = NoText]_vars

\* The session ended with a host chosen by plain select and no override,
\* after a username commit that chose no host had left its text behind.
C38_Witness ==
  /\ m.quitting
  /\ m.choice # NoChoice
  /\ m.customUsername = NoText
  /\ m.usernameText # NoText
  /\ ~m.usernameMode

(***************************************************************************)
(* Properties of the hosts listed for a group.                             *)
(***************************************************************************)
\* C39: in ByGroup with an empty filter, entering the group under the cursor
\* lists exactly AllHosts of that group, the hosts its "(n hosts)" label
\* counts, those of nested subgroups included; so every host of the
\* flattened list is listed by entering one of the groups shown.
C39_GroupListsAllItsHosts ==
  (NormalMode(m) /\ m.viewMode = GroupView /\ m.filterText = NoText)
    => /\ CursorIndex(m) < Len(m.filteredGroups)
            => getCurrentItems(Press(m, "enter").m)
                 = AllHosts(m.filteredGroups[CursorIndex(m) + 1])
       /\ \A i \in 1..Len(m.hosts) :
            \E j \in 1..Len(m.filteredGroups) :
               \E listed \in {getFilteredGroupHosts(
                                [m EXCEPT !.currentGroup = <<m.filteredGroups[j]>>])} :
                  \E k \in 1..Len(listed) : listed[k] = m.hosts[i]

====
